---- MODULE Spec2Model ----
(***************************************************************************)
(* Model of the facturas-service invoice / invoice-item engine            *)
(* (app/services/invoice_service.py, app/services/invoice_item_service.py) *)
(* over a transactional store.                                             *)
(*                                                                         *)
(* Amounts are integers counted in 1/100000 of a currency unit, so that    *)
(* request values with more than two fractional digits and the products    *)
(* quantity * unit_price * tax_rate / 100 are exact.  Columns declared     *)
(* Numeric(19, 2) hold multiples of Cent; a value written to such a column *)
(* is rounded to the nearest Cent.  Quantities are whole numbers and tax   *)
(* rates whole percents.                                                   *)
(***************************************************************************)
EXTENDS Integers, FiniteSets, Sequences, TLC

\* Python None / SQL NULL, and a request field the caller left out.
\* (Both are integers outside every value domain: amounts are >= 0, dates >= 1.)
NULL == -1
UNSET == -2

\* max_retries of lifespan.
MaxRetries == 5

\* One hundredth of a currency unit: the scale of the Numeric(19, 2) columns.
Cent == 1000

\* One thousandth of a currency unit (a value with three fractional digits).
Mill == Cent \div 10

\* Decimal('0.01'), the tolerance of the nested-creation total check.
Tolerance == Cent

\* ---- bounds ----
\* Operations started in one behaviour.
MaxOps == 3

\* Item ids handed out in one behaviour.
MaxItems == 3

\* Operations started while another request was still in flight.
MaxOverlaps == 1

\* Records matching the filters of one listing.
MaxRows == 3

\* Concurrent requests; each holds its own session (get_db).
Requests == {1, 2}

\* ---- pure helpers ----

Abs(x) == IF x < 0 THEN 0 - x ELSE x

\* Value of a non-negative amount once stored in a Numeric(19, 2) column.
Round2(x) == IF x = NULL THEN NULL ELSE ((x + (Cent \div 2)) \div Cent) * Cent

RECURSIVE SumSeq(_)
SumSeq(s) == IF s = << >> THEN 0 ELSE Head(s) + SumSeq(Tail(s))

RECURSIVE SumTotalAmount(_, _)
\* sum(item.total_amount for item in rows), taken over the rows with key in ids
SumTotalAmount(rows, ids) ==
    IF ids = {} THEN 0
    ELSE LET i == CHOOSE j \in ids : TRUE
         IN rows[i].total_amount + SumTotalAmount(rows, ids \ {i})

\* Faulty variant of ItemsOf: no row is taken to reference the invoice.
ItemsOfNone(its, inv) == {}

\* The ids of the invoice_items rows that reference invoice inv.
ItemsOf(its, inv) == {i \in DOMAIN its : its[i].invoice_id = inv}

\* Faulty variant of CalculateTotals: the total is derived even when supplied.
CalculateTotalsDerivedTotal(quantity, unit_price, subtotal, tax_rate, tax_amount, total_amount) ==
    LET calculated_subtotal ==
            IF subtotal # NULL THEN subtotal
            ELSE IF quantity # NULL /\ unit_price # NULL THEN quantity * unit_price
            ELSE 0
        calculated_tax_amount ==
            IF tax_amount # NULL THEN tax_amount
            ELSE IF tax_rate # NULL /\ calculated_subtotal > 0
                 THEN (calculated_subtotal * tax_rate) \div 100
            ELSE 0
    IN [subtotal |-> calculated_subtotal,
        tax_amount |-> calculated_tax_amount,
        total_amount |-> calculated_subtotal + calculated_tax_amount]

\* InvoiceItemService._calculate_totals
CalculateTotals(quantity, unit_price, subtotal, tax_rate, tax_amount, total_amount) ==
    LET calculated_subtotal ==
            IF subtotal # NULL THEN subtotal
            ELSE IF quantity # NULL /\ unit_price # NULL THEN quantity * unit_price
            ELSE 0
        calculated_tax_amount ==
            IF tax_amount # NULL THEN tax_amount
            ELSE IF tax_rate # NULL /\ calculated_subtotal > 0
                 THEN (calculated_subtotal * tax_rate) \div 100
            ELSE 0
        calculated_total ==
            IF total_amount # NULL THEN total_amount
            ELSE calculated_subtotal + calculated_tax_amount
    IN [subtotal |-> calculated_subtotal,
        tax_amount |-> calculated_tax_amount,
        total_amount |-> calculated_total]

\* Faulty variant of CalculateItemTotals: a subtotal of zero is taxed like any
\* other, and the total is derived even when supplied.
CalculateItemTotalsDerivedTotal(item) ==
    LET subtotal ==
            IF item.subtotal # NULL THEN item.subtotal
            ELSE IF item.quantity # NULL /\ item.unit_price # NULL
                 THEN item.quantity * item.unit_price
            ELSE 0
        tax_amount ==
            IF item.tax_amount # NULL THEN item.tax_amount
            ELSE IF item.tax_rate # NULL
                 THEN (subtotal * item.tax_rate) \div 100
            ELSE 0
    IN [subtotal |-> subtotal, tax_amount |-> tax_amount,
        total_amount |-> subtotal + tax_amount]

\* InvoiceService._calculate_item_totals (the nested-creation calculator)
CalculateItemTotals(item) ==
    LET subtotal ==
            IF item.subtotal # NULL THEN item.subtotal
            ELSE IF item.quantity # NULL /\ item.unit_price # NULL
                 THEN item.quantity * item.unit_price
            ELSE 0
        tax_amount ==
            IF item.tax_amount # NULL THEN item.tax_amount
            ELSE IF item.tax_rate # NULL /\ subtotal > 0
                 THEN (subtotal * item.tax_rate) \div 100
            ELSE 0
        total_amount ==
            IF item.total_amount # NULL THEN item.total_amount
            ELSE subtotal + tax_amount
    IN [subtotal |-> subtotal, tax_amount |-> tax_amount, total_amount |-> total_amount]

\* items_total of create_with_items: the sum of the computed item totals.
NestedItemsTotal(reqItems) ==
    SumSeq([k \in 1..Len(reqItems) |-> CalculateItemTotals(reqItems[k]).total_amount])

\* Faulty variant of DatesInvalid: equal dates are rejected too.
DatesInvalidOrEqual(arrival_date, departure_date) ==
    /\ departure_date # NULL
    /\ arrival_date # NULL
    /\ departure_date <= arrival_date

\* The date rule of create / create_with_items; falsy (None) dates skip it.
DatesInvalid(arrival_date, departure_date) ==
    /\ departure_date # NULL
    /\ arrival_date # NULL
    /\ departure_date < arrival_date

\* Faulty variant of TotalMismatch: the tolerance itself is rejected.
TotalMismatchAtTolerance(total_amount, items_total) ==
    Abs(total_amount - items_total) >= Tolerance

\* The total check of create_with_items for a supplied total_amount.
TotalMismatch(total_amount, items_total) ==
    Abs(total_amount - items_total) > Tolerance

\* ---- request values ----

\* Python's view of a request field: an unset field reads as None.
Val(x) == IF x = UNSET THEN NULL ELSE x

\* InvoiceItemCreateRequest / InvoiceItemCreateNested bodies (total_amount is
\* required): the fixture item (2 x 150.00 at 19 %, total 357.00) and an item
\* whose total has three fractional digits (0.004).
FixtureItem ==
    [quantity |-> 2, unit_price |-> 150 * Cent, subtotal |-> NULL,
     tax_rate |-> 19, tax_amount |-> NULL, total_amount |-> 357 * Cent]

SmallItem ==
    [quantity |-> NULL, unit_price |-> NULL, subtotal |-> NULL,
     tax_rate |-> NULL, tax_amount |-> NULL, total_amount |-> 4 * Mill]

ItemCreateRequests == { FixtureItem, SmallItem }

\* InvoiceItemUpdateRequest bodies (every field optional).
ItemUpdateRequests ==
    { [quantity |-> 3, unit_price |-> UNSET, subtotal |-> UNSET,
       tax_rate |-> UNSET, tax_amount |-> UNSET, total_amount |-> UNSET],
      [quantity |-> UNSET, unit_price |-> UNSET, subtotal |-> UNSET,
       tax_rate |-> UNSET, tax_amount |-> UNSET, total_amount |-> 500 * Cent] }

\* InvoiceItemUpdateRequest bodies with every combination of fields left out
\* and supplied, and quantity or total_amount also supplied as null.
AllItemUpdateRequests ==
    [quantity : {UNSET, NULL, 3}, unit_price : {UNSET, 100 * Cent},
     subtotal : {UNSET, 200 * Cent}, tax_rate : {UNSET, 10},
     tax_amount : {UNSET, 7 * Cent}, total_amount : {UNSET, NULL, 500 * Cent}]

\* (arrival_date, departure_date) of InvoiceCreateRequest and
\* InvoiceCreateWithItemsRequest.
DatePairs == { <<NULL, NULL>>, <<2, 1>> }

\* Every (arrival_date, departure_date) over two days: absent, equal, ordered
\* and reversed.
Dates == { NULL, 1, 2 }
AllDatePairs == Dates \X Dates

\* total_amount of InvoiceCreateRequest (required): zero and the fixture total.
InvoiceTotals == { 500 * Cent }

\* total_amount of InvoiceCreateWithItemsRequest (optional).
NestedTotals == { NULL, 357 * Cent, 500 * Cent, 18 * Mill }

\* items of InvoiceCreateWithItemsRequest (min_length = 1).
NestedItems == { <<FixtureItem>>, <<SmallItem, SmallItem>>, <<FixtureItem, SmallItem>> }

\* InvoiceUpdateRequest bodies (every field optional).
InvoiceUpdateRequests ==
    { [total_amount |-> 500 * Cent, arrival_date |-> UNSET, departure_date |-> UNSET],
      [total_amount |-> UNSET, arrival_date |-> UNSET, departure_date |-> 1],
      [total_amount |-> NULL, arrival_date |-> UNSET, departure_date |-> UNSET] }

\* InvoiceUpdateRequest bodies that touch the dates only: each date left out,
\* set to null or set to a day.
DateUpdateRequests ==
    [total_amount : {UNSET}, arrival_date : {UNSET} \cup Dates,
     departure_date : {UNSET} \cup Dates]

\* ---- state ----

VARIABLES
    invoices,         \* committed rows of table invoices: id -> row
    items,            \* committed rows of table invoice_items: id -> row
    next_invoice_id,  \* autoincrement of invoices.id
    next_item_id,     \* autoincrement of invoice_items.id
    pc,               \* per request: where its handler stands
    call,             \* per request: the operation and its arguments
    result,           \* per request: how the operation ended
    response,         \* per request: the value returned on success
    before,           \* per request: the committed rows when it started
    local,            \* per request: the handler's local variables
    ops,              \* operations started so far
    overlaps,         \* of these, started while another request was in flight
    provedores,       \* rows of table provedores (provedores-service): id -> row
    liquidaciones,    \* rows of table liquidaciones (liquidaciones-service): id -> row
    startup           \* lifespan: where startup stands and what it has logged

vars == <<invoices, items, next_invoice_id, next_item_id,
          pc, call, result, response, before, local, ops, overlaps,
          provedores, liquidaciones, startup>>

\* The tables of the two services that keep deleted records.
registers == <<provedores, liquidaciones>>

store == <<invoices, items, next_invoice_id, next_item_id>>

NoCall == [op |-> "none"]
NoResponse == [id |-> NULL]
NoLocal == [invoice_id |-> NULL, item_id |-> NULL, loaded_total |-> NULL,
            items |-> << >>, total |-> NULL]
NoRows == [invoices |-> << >>, items |-> << >>]

Rows == [invoices |-> invoices, items |-> items]

\* lifespan before it is entered: no connection attempt made, nothing logged.
NotStarted == [at |-> "off", environment |-> "development", attempts |-> 0,
               connected |-> FALSE, logged |-> << >>]

Init ==
    /\ invoices = << >>
    /\ items = << >>
    /\ next_invoice_id = 1
    /\ next_item_id = 1
    /\ pc = [r \in Requests |-> "idle"]
    /\ call = [r \in Requests |-> NoCall]
    /\ result = [r \in Requests |-> "none"]
    /\ response = [r \in Requests |-> NoResponse]
    /\ before = [r \in Requests |-> NoRows]
    /\ local = [r \in Requests |-> NoLocal]
    /\ ops = 0
    /\ overlaps = 0
    /\ provedores = << >>
    /\ liquidaciones = << >>
    /\ startup = NotStarted

\* Item ids that flushed, uncommitted nested creations will take.
Reserved ==
    LET n(q) == IF pc[q] = "cwi_flushed" THEN Len(call[q].items) ELSE 0
    IN n(1) + n(2)

\* Whether n more items keep the item ids within the bound.
RoomFor(n) == next_item_id + Reserved + n - 1 <= MaxItems

\* A request may start when its slot is free; with serial execution, only when
\* no other request is in flight.  Requests are interchangeable, so a new one
\* takes the lowest free slot.
CanStart(r, serial) ==
    /\ pc[r] = "idle"
    /\ ops < MaxOps
    /\ serial => \A q \in Requests : pc[q] = "idle"
    /\ \A q \in Requests : q < r => pc[q] # "idle"
    /\ (\E q \in Requests : pc[q] # "idle") => overlaps < MaxOverlaps

\* The request-side bookkeeping of starting operation c.
Begin(r, c) ==
    /\ call' = [call EXCEPT ![r] = c]
    /\ before' = [before EXCEPT ![r] = Rows]
    /\ ops' = ops + 1
    /\ overlaps' = IF \E q \in Requests : pc[q] # "idle" THEN overlaps + 1 ELSE overlaps

\* Starting an operation of the facturas service, which has no access to the
\* tables of the other services.
Start(r, c) ==
    /\ Begin(r, c)
    /\ UNCHANGED <<registers, startup>>

\* The handler returns or raises: status s, value v.
Finish(r, s, v) ==
    /\ pc' = [pc EXCEPT ![r] = "done"]
    /\ result' = [result EXCEPT ![r] = s]
    /\ response' = [response EXCEPT ![r] = v]

\* table minus the rows ids
Without(table, ids) == [i \in DOMAIN table \ ids |-> table[i]]

\* ---- InvoiceService ----

\* InvoiceService.create: validate the dates, insert the invoice, commit.  The
\* (arrival_date, departure_date) of the request is one of pairs.
InvoiceCreateDated(r, serial, pairs) ==
    /\ CanStart(r, serial)
    /\ \E total \in InvoiceTotals, dates \in pairs, fail \in BOOLEAN :
        /\ Start(r, [op |-> "invoice_create", total_amount |-> total,
                     arrival_date |-> dates[1], departure_date |-> dates[2]])
        /\ IF DatesInvalid(dates[1], dates[2])
           THEN /\ Finish(r, "invalid_dates", NoResponse)
                /\ UNCHANGED store
           ELSE IF fail
           THEN /\ Finish(r, "error", NoResponse)
                /\ UNCHANGED store
           ELSE /\ invoices' = invoices @@ (next_invoice_id :>
                        [total_amount |-> Round2(total),
                         arrival_date |-> dates[1], departure_date |-> dates[2],
                         updated_at |-> 0])
                /\ next_invoice_id' = next_invoice_id + 1
                /\ Finish(r, "ok", [id |-> next_invoice_id])
                /\ UNCHANGED <<items, next_item_id>>
    /\ UNCHANGED local

\* InvoiceService.create with the dates of the requests drawn from DatePairs.
InvoiceCreate(r, serial) == InvoiceCreateDated(r, serial, DatePairs)

\* Faulty variant of AfterFlush: the flush commits the row.
AfterFlushCommitted(table, id, row) == table @@ (id :> row)

\* What db.flush() leaves in the committed table: the flushed row is visible to
\* the flushing session only.
AfterFlush(table, id, row) == table

\* Faulty variant of NestedRow: the item's total is derived even when supplied.
NestedRowDerivedTotal(inv, item) ==
    LET t == CalculateItemTotals(item)
    IN [invoice_id |-> inv, quantity |-> item.quantity, unit_price |-> item.unit_price,
        subtotal |-> t.subtotal, tax_rate |-> item.tax_rate,
        tax_amount |-> t.tax_amount, total_amount |-> t.subtotal + t.tax_amount]

\* The invoice_items row create_with_items builds from a nested item.
NestedRow(inv, item) ==
    LET t == CalculateItemTotals(item)
    IN [invoice_id |-> inv, quantity |-> item.quantity, unit_price |-> item.unit_price,
        subtotal |-> t.subtotal, tax_rate |-> item.tax_rate,
        tax_amount |-> t.tax_amount, total_amount |-> t.total_amount]

\* A row as the table holds it: the Numeric(19, 2) columns rounded.
StoredItem(row) ==
    [row EXCEPT !.unit_price = Round2(@), !.subtotal = Round2(@),
                !.tax_amount = Round2(@), !.total_amount = Round2(@)]

\* total_amount of the invoice create_with_items builds.
NestedInvoiceTotal(total_amount, items_total) ==
    IF total_amount # NULL THEN total_amount ELSE items_total

\* InvoiceService.create_with_items up to db.flush(): validate the dates and the
\* total, add the invoice to the session and flush it.  The request takes its
\* total_amount from totals, its (arrival_date, departure_date) from pairs and
\* its items from lists.
CreateWithItemsFrom(r, serial, totals, pairs, lists) ==
    /\ CanStart(r, serial)
    /\ \E total \in totals, dates \in pairs, its \in lists, fail \in BOOLEAN :
        /\ RoomFor(Len(its))
        /\ Start(r, [op |-> "create_with_items", total_amount |-> total,
                     arrival_date |-> dates[1], departure_date |-> dates[2],
                     items |-> its])
        /\ IF DatesInvalid(dates[1], dates[2])
           THEN /\ Finish(r, "invalid_dates", NoResponse)
                /\ UNCHANGED <<store, local>>
           ELSE IF total # NULL /\ TotalMismatch(total, NestedItemsTotal(its))
           THEN /\ Finish(r, "invalid_total", NoResponse)
                /\ UNCHANGED <<store, local>>
           ELSE IF fail
           THEN /\ Finish(r, "error", NoResponse)
                /\ UNCHANGED <<store, local>>
           ELSE /\ invoices' = AfterFlush(invoices, next_invoice_id,
                        [total_amount |-> Round2(NestedInvoiceTotal(total, NestedItemsTotal(its))),
                         arrival_date |-> dates[1], departure_date |-> dates[2],
                         updated_at |-> 0])
                /\ next_invoice_id' = next_invoice_id + 1
                /\ local' = [local EXCEPT ![r] = [NoLocal EXCEPT !.invoice_id = next_invoice_id]]
                /\ pc' = [pc EXCEPT ![r] = "cwi_flushed"]
                /\ UNCHANGED <<items, next_item_id, result, response>>

\* create_with_items up to the flush, over the requests of the main model.
CreateWithItems(r, serial) ==
    CreateWithItemsFrom(r, serial, NestedTotals, DatePairs, NestedItems)

\* InvoiceService.create_with_items from the item loop on: add the items, commit
\* invoice and items together, refresh the invoice and build the response (the
\* session keeps the item objects as built: expire_on_commit is off).
CreateWithItemsCommit(r) ==
    /\ pc[r] = "cwi_flushed"
    /\ \E fail \in BOOLEAN :
        LET c == call[r]
            id == local[r].invoice_id
            n == Len(c.items)
            row == [total_amount |-> Round2(NestedInvoiceTotal(c.total_amount, NestedItemsTotal(c.items))),
                    arrival_date |-> c.arrival_date, departure_date |-> c.departure_date,
                    updated_at |-> 0]
            built == [k \in 1..n |-> NestedRow(id, c.items[k])]
        IN IF fail
           THEN /\ Finish(r, "error", NoResponse)
                /\ UNCHANGED store
           ELSE /\ invoices' = invoices @@ (id :> row)
                /\ items' = items @@ [i \in next_item_id..(next_item_id + n - 1) |->
                                        StoredItem(built[i - next_item_id + 1])]
                /\ next_item_id' = next_item_id + n
                /\ Finish(r, "ok", [id |-> id, total_amount |-> row.total_amount,
                                    items |-> built])
                /\ UNCHANGED next_invoice_id
    /\ UNCHANGED <<call, before, local, ops, overlaps, registers, startup>>

\* Faulty variant of MergedDate: only the date of the request is checked, as
\* in create.
MergedDateRequestOnly(requested, stored) == Val(requested)

\* Faulty variant of Touched: the row keeps its updated_at.
Untouched(row) == row

\* Invoice.updated_at has onupdate: every UPDATE of an invoices row stamps it.
\* The stamp is kept as the number of UPDATEs the row has had; a new row has 0.
Touched(row) == [row EXCEPT !.updated_at = @ + 1]

\* The date InvoiceService.update checks: the one of the request when it is
\* truthy, else the stored one.
MergedDate(requested, stored) ==
    IF Val(requested) # NULL THEN requested ELSE stored

\* InvoiceService.update: merge the dates for the check, set the supplied
\* fields, commit.  (total_amount is NOT NULL: setting it to null fails the commit.)
\* The request body is one of requests.
InvoiceUpdateFrom(r, serial, requests) ==
    /\ CanStart(r, serial)
    /\ \E id \in 1..next_invoice_id, req \in requests, fail \in BOOLEAN :
        /\ Start(r, [op |-> "invoice_update", invoice_id |-> id, request |-> req])
        /\ IF id \notin DOMAIN invoices
           THEN /\ Finish(r, "absent", NoResponse)
                /\ UNCHANGED store
           ELSE LET invoice == invoices[id]
                    arrival_date == MergedDate(req.arrival_date, invoice.arrival_date)
                    departure_date == MergedDate(req.departure_date, invoice.departure_date)
                    updated == [total_amount |-> IF req.total_amount # UNSET
                                                 THEN Round2(req.total_amount)
                                                 ELSE invoice.total_amount,
                                arrival_date |-> IF req.arrival_date # UNSET
                                                 THEN req.arrival_date
                                                 ELSE invoice.arrival_date,
                                departure_date |-> IF req.departure_date # UNSET
                                                   THEN req.departure_date
                                                   ELSE invoice.departure_date,
                                updated_at |-> invoice.updated_at]
                IN IF DatesInvalid(arrival_date, departure_date)
                   THEN /\ Finish(r, "invalid_dates", NoResponse)
                        /\ UNCHANGED store
                   ELSE IF fail \/ updated.total_amount = NULL
                   THEN /\ Finish(r, "error", NoResponse)
                        /\ UNCHANGED store
                   ELSE /\ invoices' = [invoices EXCEPT ![id] =
                                          IF updated = invoice THEN invoice ELSE Touched(updated)]
                        /\ Finish(r, "ok", [id |-> id])
                        /\ UNCHANGED <<items, next_invoice_id, next_item_id>>
    /\ UNCHANGED local

\* InvoiceService.update over the update requests of the main model.
InvoiceUpdate(r, serial) == InvoiceUpdateFrom(r, serial, InvoiceUpdateRequests)

\* InvoiceService.delete: delete the invoice; its items go with it (cascade).
InvoiceDelete(r, serial) ==
    /\ CanStart(r, serial)
    /\ \E id \in 1..next_invoice_id, fail \in BOOLEAN :
        /\ Start(r, [op |-> "invoice_delete", invoice_id |-> id])
        /\ IF id \notin DOMAIN invoices
           THEN /\ Finish(r, "absent", NoResponse)
                /\ UNCHANGED store
           ELSE IF fail
           THEN /\ Finish(r, "error", NoResponse)
                /\ UNCHANGED store
           ELSE /\ invoices' = Without(invoices, {id})
                /\ items' = Without(items, ItemsOf(items, id))
                /\ Finish(r, "ok", [id |-> id])
                /\ UNCHANGED <<next_invoice_id, next_item_id>>
    /\ UNCHANGED local

\* ---- InvoiceItemService ----

\* The invoice_items row InvoiceItemService.create builds from its request.
CreatedRow(inv, req) ==
    LET t == CalculateTotals(req.quantity, req.unit_price, req.subtotal,
                             req.tax_rate, req.tax_amount, req.total_amount)
    IN [invoice_id |-> inv, quantity |-> req.quantity, unit_price |-> req.unit_price,
        subtotal |-> t.subtotal, tax_rate |-> req.tax_rate,
        tax_amount |-> t.tax_amount, total_amount |-> t.total_amount]

\* Faulty variant of UpdatedRow: the stored subtotal, tax_amount and
\* total_amount are not merged, so the rules derive what the request leaves out.
UpdatedRowRederived(item, req) ==
    LET quantity == IF Val(req.quantity) # NULL THEN req.quantity ELSE item.quantity
        unit_price == IF Val(req.unit_price) # NULL THEN req.unit_price ELSE item.unit_price
        tax_rate == IF Val(req.tax_rate) # NULL THEN req.tax_rate ELSE item.tax_rate
        t == CalculateTotals(quantity, unit_price, Val(req.subtotal), tax_rate,
                             Val(req.tax_amount), Val(req.total_amount))
    IN [invoice_id |-> item.invoice_id,
        quantity |-> IF req.quantity # UNSET THEN req.quantity ELSE item.quantity,
        unit_price |-> IF req.unit_price # UNSET THEN req.unit_price ELSE item.unit_price,
        subtotal |-> t.subtotal,
        tax_rate |-> IF req.tax_rate # UNSET THEN req.tax_rate ELSE item.tax_rate,
        tax_amount |-> t.tax_amount,
        total_amount |-> t.total_amount]

\* The row InvoiceItemService.update leaves for item under request req.
UpdatedRow(item, req) ==
    LET quantity == IF Val(req.quantity) # NULL THEN req.quantity ELSE item.quantity
        unit_price == IF Val(req.unit_price) # NULL THEN req.unit_price ELSE item.unit_price
        subtotal == IF Val(req.subtotal) # NULL THEN req.subtotal ELSE item.subtotal
        tax_rate == IF Val(req.tax_rate) # NULL THEN req.tax_rate ELSE item.tax_rate
        tax_amount == IF Val(req.tax_amount) # NULL THEN req.tax_amount ELSE item.tax_amount
        total_amount == IF Val(req.total_amount) # NULL THEN req.total_amount ELSE item.total_amount
        recompute == \/ Val(req.quantity) # NULL
                     \/ Val(req.unit_price) # NULL
                     \/ Val(req.subtotal) # NULL
                     \/ Val(req.tax_rate) # NULL
        t == IF recompute
             THEN CalculateTotals(quantity, unit_price, subtotal, tax_rate, tax_amount, total_amount)
             ELSE [subtotal |-> subtotal, tax_amount |-> tax_amount, total_amount |-> total_amount]
    IN [invoice_id |-> item.invoice_id,
        quantity |-> IF req.quantity # UNSET THEN req.quantity ELSE item.quantity,
        unit_price |-> IF req.unit_price # UNSET THEN req.unit_price ELSE item.unit_price,
        subtotal |-> t.subtotal,
        tax_rate |-> IF req.tax_rate # UNSET THEN req.tax_rate ELSE item.tax_rate,
        tax_amount |-> t.tax_amount,
        total_amount |-> t.total_amount]

\* InvoiceItemService.create up to the item's commit: look the invoice up
\* (loading it into the session), insert the item, commit, refresh the item.
ItemCreate(r, serial) ==
    /\ CanStart(r, serial)
    /\ RoomFor(1)
    /\ \E inv \in 1..next_invoice_id, req \in ItemCreateRequests, fail \in BOOLEAN :
        /\ Start(r, [op |-> "item_create", invoice_id |-> inv, request |-> req])
        /\ IF inv \notin DOMAIN invoices
           THEN /\ Finish(r, "not_found", NoResponse)
                /\ UNCHANGED <<store, local>>
           ELSE IF fail
           THEN /\ Finish(r, "error", NoResponse)
                /\ UNCHANGED <<store, local>>
           ELSE /\ items' = items @@ (next_item_id :> StoredItem(CreatedRow(inv, req)))
                /\ next_item_id' = next_item_id + 1
                /\ local' = [local EXCEPT ![r] =
                        [NoLocal EXCEPT !.invoice_id = inv, !.item_id = next_item_id,
                                        !.loaded_total = invoices[inv].total_amount]]
                /\ pc' = [pc EXCEPT ![r] = "recalc_read"]
                /\ UNCHANGED <<invoices, next_invoice_id, result, response>>

\* InvoiceItemService.update up to the item's commit: find the item, merge and
\* recompute, commit, refresh the item.  The request is one of requests.
ItemUpdateFrom(r, serial, requests) ==
    /\ CanStart(r, serial)
    /\ \E id \in 1..next_item_id, req \in requests, fail \in BOOLEAN :
        /\ Start(r, [op |-> "item_update", item_id |-> id, request |-> req])
        /\ IF id \notin DOMAIN items
           THEN /\ Finish(r, "absent", NoResponse)
                /\ UNCHANGED <<store, local>>
           ELSE IF fail
           THEN /\ Finish(r, "error", NoResponse)
                /\ UNCHANGED <<store, local>>
           ELSE /\ items' = [items EXCEPT ![id] = StoredItem(UpdatedRow(items[id], req))]
                /\ local' = [local EXCEPT ![r] =
                        [NoLocal EXCEPT !.invoice_id = items[id].invoice_id, !.item_id = id]]
                /\ pc' = [pc EXCEPT ![r] = "recalc_read"]
                /\ UNCHANGED <<invoices, next_invoice_id, next_item_id, result, response>>

\* InvoiceItemService.update over the update requests of the main model.
ItemUpdate(r, serial) == ItemUpdateFrom(r, serial, ItemUpdateRequests)

\* Faulty variant of ItemDelete: a missing item raises instead of returning
\* False.
ItemDeleteRaising(r, serial) ==
    /\ CanStart(r, serial)
    /\ \E id \in 1..next_item_id, fail \in BOOLEAN :
        /\ Start(r, [op |-> "item_delete", item_id |-> id])
        /\ IF id \notin DOMAIN items \/ fail
           THEN /\ Finish(r, "error", NoResponse)
                /\ UNCHANGED <<store, local>>
           ELSE /\ items' = Without(items, {id})
                /\ local' = [local EXCEPT ![r] =
                        [NoLocal EXCEPT !.invoice_id = items[id].invoice_id, !.item_id = id]]
                /\ pc' = [pc EXCEPT ![r] = "recalc_read"]
                /\ UNCHANGED <<invoices, next_invoice_id, next_item_id, result, response>>

\* InvoiceItemService.delete up to the item's commit: find the item, delete it,
\* commit.
ItemDelete(r, serial) ==
    /\ CanStart(r, serial)
    /\ \E id \in 1..next_item_id, fail \in BOOLEAN :
        /\ Start(r, [op |-> "item_delete", item_id |-> id])
        /\ IF id \notin DOMAIN items
           THEN /\ Finish(r, "absent", NoResponse)
                /\ UNCHANGED <<store, local>>
           ELSE IF fail
           THEN /\ Finish(r, "error", NoResponse)
                /\ UNCHANGED <<store, local>>
           ELSE /\ items' = Without(items, {id})
                /\ local' = [local EXCEPT ![r] =
                        [NoLocal EXCEPT !.invoice_id = items[id].invoice_id, !.item_id = id]]
                /\ pc' = [pc EXCEPT ![r] = "recalc_read"]
                /\ UNCHANGED <<invoices, next_invoice_id, next_item_id, result, response>>

\* Faulty variant of ItemsRead: the query has lost its invoice filter.
ItemsReadAll(its, inv) == its

\* The rows the items query of _recalculate_invoice_total returns:
\* InvoiceItem.invoice_id == invoice_id.
ItemsRead(its, inv) == [i \in ItemsOf(its, inv) |-> its[i]]

RECURSIVE SumSubtotal(_, _)
SumSubtotal(rows, ids) ==
    IF ids = {} THEN 0
    ELSE LET i == CHOOSE j \in ids : TRUE
         IN rows[i].subtotal + SumSubtotal(rows, ids \ {i})

\* Faulty variant of RecalculatedTotal: the sum is taken over subtotal.
RecalculatedSubtotal(rows) == SumSubtotal(rows, DOMAIN rows)

\* total = sum(item.total_amount for item in items)
RecalculatedTotal(rows) == SumTotalAmount(rows, DOMAIN rows)

\* Faulty variant of TotalChanged: a total of zero is taken for "nothing to write".
TotalChangedAndNonZero(total, loaded_total) == total # loaded_total /\ total # 0

\* Whether the commit of _recalculate_invoice_total writes the invoice: the
\* session emits an UPDATE only for an attribute whose assigned value differs
\* from the loaded one.
TotalChanged(total, loaded_total) == total # loaded_total

\* Faulty variant of WriteTotal: the total is written to every invoice.
WriteTotalEverywhere(table, inv, total) ==
    [i \in DOMAIN table |-> Touched([table[i] EXCEPT !.total_amount = Round2(total)])]

\* invoice.total_amount = total; commit: the UPDATE of the one invoices row.
WriteTotal(table, inv, total) ==
    [table EXCEPT ![inv] = Touched([@ EXCEPT !.total_amount = Round2(total)])]

\* Faulty variant of RecalculateRead: a missing invoice is raised as not found.
RecalculateReadRaising(r) ==
    /\ pc[r] = "recalc_read"
    /\ \E fail \in BOOLEAN :
        LET inv == local[r].invoice_id
            rows == ItemsRead(items, inv)
        IN IF fail
           THEN /\ Finish(r, "error", NoResponse)
                /\ UNCHANGED local
           ELSE IF inv \notin DOMAIN invoices
           THEN /\ Finish(r, "not_found", NoResponse)
                /\ UNCHANGED local
           ELSE /\ local' = [local EXCEPT ![r].items = rows,
                                          ![r].total = RecalculatedTotal(rows),
                                          ![r].loaded_total =
                                              IF @ = NULL THEN invoices[inv].total_amount ELSE @]
                /\ pc' = [pc EXCEPT ![r] = "recalc_write"]
                /\ UNCHANGED <<result, response>>
    /\ UNCHANGED <<store, call, before, ops, overlaps, registers, startup>>

\* InvoiceItemService._recalculate_invoice_total, the reads: query the invoice's
\* items and sum them, query the invoice.  An invoice the session already holds
\* (create loaded it for its existence check) keeps the attributes it was
\* loaded with.  No invoice: return without writing.
RecalculateRead(r) ==
    /\ pc[r] = "recalc_read"
    /\ \E fail \in BOOLEAN :
        LET inv == local[r].invoice_id
            rows == ItemsRead(items, inv)
        IN IF fail
           THEN /\ Finish(r, "error", NoResponse)
                /\ UNCHANGED local
           ELSE IF inv \notin DOMAIN invoices
           THEN /\ Finish(r, "ok", [id |-> local[r].item_id])
                /\ UNCHANGED local
           ELSE /\ local' = [local EXCEPT ![r].items = rows,
                                          ![r].total = RecalculatedTotal(rows),
                                          ![r].loaded_total =
                                              IF @ = NULL THEN invoices[inv].total_amount ELSE @]
                /\ pc' = [pc EXCEPT ![r] = "recalc_write"]
                /\ UNCHANGED <<result, response>>
    /\ UNCHANGED <<store, call, before, ops, overlaps, registers, startup>>

\* InvoiceItemService._recalculate_invoice_total, the write: assign the total
\* and commit.  Writing a row that is gone fails the commit.
RecalculateWrite(r) ==
    /\ pc[r] = "recalc_write"
    /\ \E fail \in BOOLEAN :
        LET inv == local[r].invoice_id
        IN IF fail
           THEN /\ Finish(r, "error", NoResponse)
                /\ UNCHANGED invoices
           ELSE IF ~TotalChanged(local[r].total, local[r].loaded_total)
           THEN /\ Finish(r, "ok", [id |-> local[r].item_id])
                /\ UNCHANGED invoices
           ELSE IF inv \notin DOMAIN invoices
           THEN /\ Finish(r, "error", NoResponse)
                /\ UNCHANGED invoices
           ELSE /\ invoices' = WriteTotal(invoices, inv, local[r].total)
                /\ Finish(r, "ok", [id |-> local[r].item_id])
    /\ UNCHANGED <<items, next_invoice_id, next_item_id, call, before, local, ops, overlaps, registers, startup>>

\* The response is sent and the request's session closed (get_db).
Return(r) ==
    /\ pc[r] = "done"
    /\ pc' = [pc EXCEPT ![r] = "idle"]
    /\ call' = [call EXCEPT ![r] = NoCall]
    /\ result' = [result EXCEPT ![r] = "none"]
    /\ response' = [response EXCEPT ![r] = NoResponse]
    /\ before' = [before EXCEPT ![r] = NoRows]
    /\ local' = [local EXCEPT ![r] = NoLocal]
    /\ UNCHANGED <<store, ops, overlaps, registers, startup>>

\* ---- reads ----

\* get_by_id of the four services: the rows the query filtered by id matches;
\* the service returns the first of them, or None when there is none.
GetById(table, id) == { table[i] : i \in DOMAIN table \cap {id} }

\* InvoiceService.get_by_id behind GET /invoices/{invoice_id}: the query fails,
\* finds nothing (None) or finds the invoice.
InvoiceGet(r) ==
    /\ CanStart(r, TRUE)
    /\ \E id \in 1..next_invoice_id, fail \in BOOLEAN :
        /\ Start(r, [op |-> "invoice_get", invoice_id |-> id])
        /\ IF fail THEN Finish(r, "error", NoResponse)
           ELSE IF GetById(invoices, id) = {} THEN Finish(r, "absent", NoResponse)
           ELSE Finish(r, "ok", [id |-> id])
    /\ UNCHANGED <<store, local>>

\* InvoiceItemService.get_by_invoice_id behind GET /invoices/{invoice_id}/items:
\* ValueError when the invoice does not exist.
InvoiceItemsGet(r) ==
    /\ CanStart(r, TRUE)
    /\ \E id \in 1..next_invoice_id, fail \in BOOLEAN :
        /\ Start(r, [op |-> "invoice_items_get", invoice_id |-> id])
        /\ IF fail THEN Finish(r, "error", NoResponse)
           ELSE IF GetById(invoices, id) = {} THEN Finish(r, "not_found", NoResponse)
           ELSE Finish(r, "ok", [id |-> id, items |-> ItemsOf(items, id)])
    /\ UNCHANGED <<store, local>>

\* InvoiceItemService.get_by_id behind GET /invoice-items/{item_id}.
ItemGet(r) ==
    /\ CanStart(r, TRUE)
    /\ \E id \in 1..next_item_id, fail \in BOOLEAN :
        /\ Start(r, [op |-> "item_get", item_id |-> id])
        /\ IF fail THEN Finish(r, "error", NoResponse)
           ELSE IF GetById(items, id) = {} THEN Finish(r, "absent", NoResponse)
           ELSE Finish(r, "ok", [id |-> id])
    /\ UNCHANGED <<store, local>>

\* ---- ProvedorService and LiquidacionService ----

\* provedor_estado / estado of a create request (absent: the service stores 1)
\* and a second field standing for the rest of the record.
EstadoRequests == { NULL, 0 }
Nombres == { 1, 2 }

\* The id the next inserted row takes: rows of these tables are never removed.
NextId(table) == Cardinality(DOMAIN table) + 1

\* ProvedorService.create
ProvedorCreate(r) ==
    /\ CanStart(r, TRUE)
    /\ \E estado \in EstadoRequests, nombre \in Nombres, fail \in BOOLEAN :
        /\ Begin(r, [op |-> "provedor_create", provedor_estado |-> estado,
                     provedor_nombre |-> nombre])
        /\ IF fail
           THEN /\ Finish(r, "error", NoResponse)
                /\ UNCHANGED provedores
           ELSE /\ provedores' = provedores @@ (NextId(provedores) :>
                        [provedor_estado |-> IF estado # NULL THEN estado ELSE 1,
                         provedor_nombre |-> nombre])
                /\ Finish(r, "ok", [id |-> NextId(provedores)])
    /\ UNCHANGED <<store, local, liquidaciones, startup>>

\* Faulty variant of ProvedorSoftDeleted: the row is removed.
ProvedorRemoved(table, id) == [i \in DOMAIN table \ {id} |-> table[i]]

\* The table after ProvedorService.delete found the row: provedor_estado = 0.
ProvedorSoftDeleted(table, id) == [table EXCEPT ![id].provedor_estado = 0]

\* ProvedorService.delete
ProvedorDeleteWhen(r, serial) ==
    /\ CanStart(r, serial)
    /\ \E id \in 1..NextId(provedores), fail \in BOOLEAN :
        /\ Begin(r, [op |-> "provedor_delete", id |-> id])
        /\ IF id \notin DOMAIN provedores
           THEN /\ Finish(r, "absent", NoResponse)
                /\ UNCHANGED provedores
           ELSE IF fail
           THEN /\ Finish(r, "error", NoResponse)
                /\ UNCHANGED provedores
           ELSE /\ provedores' = ProvedorSoftDeleted(provedores, id)
                /\ Finish(r, "ok", [id |-> id])
    /\ UNCHANGED <<store, local, liquidaciones, startup>>

\* ProvedorService.delete, one request at a time.
ProvedorDelete(r) == ProvedorDeleteWhen(r, TRUE)

\* LiquidacionService.create
LiquidacionCreate(r) ==
    /\ CanStart(r, TRUE)
    /\ \E estado \in EstadoRequests, nombre \in Nombres, fail \in BOOLEAN :
        /\ Begin(r, [op |-> "liquidacion_create", estado |-> estado,
                     nombre_asesor |-> nombre])
        /\ IF fail
           THEN /\ Finish(r, "error", NoResponse)
                /\ UNCHANGED liquidaciones
           ELSE /\ liquidaciones' = liquidaciones @@ (NextId(liquidaciones) :>
                        [estado |-> IF estado # NULL THEN estado ELSE 1,
                         nombre_asesor |-> nombre])
                /\ Finish(r, "ok", [id |-> NextId(liquidaciones)])
    /\ UNCHANGED <<store, local, provedores, startup>>

\* Faulty variant of LiquidacionSoftDeleted: the status is flipped.
LiquidacionToggled(table, id) == [table EXCEPT ![id].estado = 1 - @]

\* The table after LiquidacionService.delete found the row: estado = 0.
LiquidacionSoftDeleted(table, id) == [table EXCEPT ![id].estado = 0]

\* LiquidacionService.delete
LiquidacionDeleteWhen(r, serial) ==
    /\ CanStart(r, serial)
    /\ \E id \in 1..NextId(liquidaciones), fail \in BOOLEAN :
        /\ Begin(r, [op |-> "liquidacion_delete", id |-> id])
        /\ IF id \notin DOMAIN liquidaciones
           THEN /\ Finish(r, "absent", NoResponse)
                /\ UNCHANGED liquidaciones
           ELSE IF fail
           THEN /\ Finish(r, "error", NoResponse)
                /\ UNCHANGED liquidaciones
           ELSE /\ liquidaciones' = LiquidacionSoftDeleted(liquidaciones, id)
                /\ Finish(r, "ok", [id |-> id])
    /\ UNCHANGED <<store, local, provedores, startup>>

\* LiquidacionService.delete, one request at a time.
LiquidacionDelete(r) == LiquidacionDeleteWhen(r, TRUE)

\* ---- routes: the HTTP status of each outcome ----

\* The outcomes the services raise as ValueError.
IsValueError(res) == res \in {"not_found", "invalid_dates", "invalid_total"}

\* Faulty variant of CreateInvoiceItemStatus: ValueError answered as on the
\* invoice routes.
CreateInvoiceItemStatusAsValidation(res) ==
    IF res = "ok" THEN 201 ELSE IF IsValueError(res) THEN 400 ELSE 500

\* POST /invoices/{invoice_id}/items: ValueError -> 404, other exceptions -> 500.
CreateInvoiceItemStatus(res) ==
    IF res = "ok" THEN 201 ELSE IF IsValueError(res) THEN 404 ELSE 500

\* PUT /invoice-items/{item_id}: None -> 404, exceptions -> 500.
UpdateInvoiceItemStatus(res) ==
    IF res = "ok" THEN 200 ELSE IF res = "absent" THEN 404 ELSE 500

\* DELETE /invoice-items/{item_id}: False -> 404, exceptions -> 500.
DeleteInvoiceItemStatus(res) ==
    IF res = "ok" THEN 204 ELSE IF res = "absent" THEN 404 ELSE 500

\* POST /invoices and POST /invoices/with-items: ValueError -> 400, other
\* exceptions -> 500.
CreateInvoiceStatus(res) ==
    IF res = "ok" THEN 201 ELSE IF IsValueError(res) THEN 400 ELSE 500

\* Faulty variant of UpdateInvoiceStatus: the 404 raised inside the try block
\* is caught by the generic handler.
UpdateInvoiceStatusSwallowed(res) ==
    IF res = "ok" THEN 200 ELSE IF IsValueError(res) THEN 400 ELSE 500

\* PUT /invoices/{invoice_id}: None -> 404, ValueError -> 400, other
\* exceptions -> 500.
UpdateInvoiceStatus(res) ==
    IF res = "ok" THEN 200
    ELSE IF res = "absent" THEN 404
    ELSE IF IsValueError(res) THEN 400
    ELSE 500

\* DELETE /invoices/{invoice_id}: False -> 404, exceptions -> 500.
DeleteInvoiceStatus(res) ==
    IF res = "ok" THEN 204 ELSE IF res = "absent" THEN 404 ELSE 500

\* GET /invoices/{invoice_id} and GET /invoice-items/{item_id}: None -> 404,
\* exceptions -> 500.
GetStatus(res) ==
    IF res = "ok" THEN 200 ELSE IF res = "absent" THEN 404 ELSE 500

\* GET /invoices/{invoice_id}/items: ValueError -> 404, other exceptions -> 500.
GetInvoiceItemsStatus(res) ==
    IF res = "ok" THEN 200 ELSE IF IsValueError(res) THEN 404 ELSE 500

\* The status the route of operation op answers for service outcome res.
RouteStatus(op, res) ==
    CASE op = "invoice_create" -> CreateInvoiceStatus(res)
      [] op = "create_with_items" -> CreateInvoiceStatus(res)
      [] op = "invoice_update" -> UpdateInvoiceStatus(res)
      [] op = "invoice_delete" -> DeleteInvoiceStatus(res)
      [] op = "item_create" -> CreateInvoiceItemStatus(res)
      [] op = "item_update" -> UpdateInvoiceItemStatus(res)
      [] op = "item_delete" -> DeleteInvoiceItemStatus(res)
      [] op = "invoice_get" -> GetStatus(res)
      [] op = "invoice_items_get" -> GetInvoiceItemsStatus(res)
      [] op = "item_get" -> GetStatus(res)

\* ---- specifications ----

\* The steps a started request takes by itself.
Step(r) ==
    \/ CreateWithItemsCommit(r)
    \/ RecalculateRead(r)
    \/ RecalculateWrite(r)
    \/ Return(r)

\* Requests executed one at a time.
Next ==
    \E r \in Requests :
        \/ InvoiceCreate(r, TRUE)
        \/ CreateWithItems(r, TRUE)
        \/ InvoiceUpdate(r, TRUE)
        \/ InvoiceDelete(r, TRUE)
        \/ ItemCreate(r, TRUE)
        \/ ItemUpdate(r, TRUE)
        \/ ItemDelete(r, TRUE)
        \/ Step(r)

Spec == Init /\ [][Next]_vars

\* Requests running concurrently, each in its own session.  A creating request
\* writes rows of its own only; it is started while no other request is in
\* flight, and the others may start and run while it is.
NextConcurrent ==
    \E r \in Requests :
        \/ InvoiceCreate(r, TRUE)
        \/ CreateWithItems(r, TRUE)
        \/ InvoiceUpdate(r, FALSE)
        \/ InvoiceDelete(r, FALSE)
        \/ ItemCreate(r, FALSE)
        \/ ItemUpdate(r, FALSE)
        \/ ItemDelete(r, FALSE)
        \/ Step(r)

SpecConcurrent == Init /\ [][NextConcurrent]_vars

\* Invoice creation, one request at a time, over every pair of dates; the
\* nested creation carries the fixture item and no total.
NextDates ==
    \E r \in Requests :
        \/ InvoiceCreateDated(r, TRUE, AllDatePairs)
        \/ CreateWithItemsFrom(r, TRUE, {NULL}, AllDatePairs, {<<FixtureItem>>})
        \/ CreateWithItemsCommit(r)
        \/ Return(r)

SpecDates == Init /\ [][NextDates]_vars

\* Item creation and item update, one request at a time, over every shape of
\* update request.
NextItemUpdate ==
    \E r \in Requests :
        \/ InvoiceCreate(r, TRUE)
        \/ ItemCreate(r, TRUE)
        \/ ItemUpdateFrom(r, TRUE, AllItemUpdateRequests)
        \/ RecalculateRead(r)
        \/ RecalculateWrite(r)
        \/ Return(r)

SpecItemUpdate == Init /\ [][NextItemUpdate]_vars

\* The three operations that write invoice dates, one request at a time, over
\* every pair of dates and every date update.
NextDateUpdates ==
    \E r \in Requests :
        \/ InvoiceCreateDated(r, TRUE, AllDatePairs)
        \/ CreateWithItemsFrom(r, TRUE, {NULL}, AllDatePairs, {<<FixtureItem>>})
        \/ CreateWithItemsCommit(r)
        \/ InvoiceUpdateFrom(r, TRUE, DateUpdateRequests)
        \/ Return(r)

SpecDateUpdates == Init /\ [][NextDateUpdates]_vars

\* Every invoice and item endpoint, one request at a time; invoices are
\* created over every pair of dates so that an update can break the order of
\* stored dates.
NextResponses ==
    \E r \in Requests :
        \/ InvoiceCreateDated(r, TRUE, AllDatePairs)
        \/ CreateWithItems(r, TRUE)
        \/ InvoiceUpdate(r, TRUE)
        \/ InvoiceDelete(r, TRUE)
        \/ ItemCreate(r, TRUE)
        \/ ItemUpdate(r, TRUE)
        \/ ItemDelete(r, TRUE)
        \/ InvoiceGet(r)
        \/ InvoiceItemsGet(r)
        \/ ItemGet(r)
        \/ Step(r)

SpecResponses == Init /\ [][NextResponses]_vars

\* The delete operations of the four services with the creations they need,
\* one request at a time.
NextDeletes ==
    \E r \in Requests :
        \/ ProvedorCreate(r)
        \/ ProvedorDelete(r)
        \/ LiquidacionCreate(r)
        \/ LiquidacionDelete(r)
        \/ InvoiceCreate(r, TRUE)
        \/ InvoiceDelete(r, TRUE)
        \/ ItemCreate(r, TRUE)
        \/ ItemDelete(r, TRUE)
        \/ RecalculateRead(r)
        \/ RecalculateWrite(r)
        \/ Return(r)

SpecDeletes == Init /\ [][NextDeletes]_vars

\* Deletes that may start as soon as the previous request has its answer, so
\* that a delete can follow a delete of the same record.
NextRepeatedDeletes ==
    \E r \in Requests :
        \/ ProvedorCreate(r)
        \/ ProvedorDeleteWhen(r, FALSE)
        \/ LiquidacionCreate(r)
        \/ LiquidacionDeleteWhen(r, FALSE)
        \/ CreateWithItemsFrom(r, TRUE, {NULL}, {<<NULL, NULL>>}, {<<FixtureItem>>})
        \/ CreateWithItemsCommit(r)
        \/ InvoiceDelete(r, FALSE)
        \/ ItemDelete(r, FALSE)
        \/ RecalculateRead(r)
        \/ RecalculateWrite(r)
        \/ Return(r)

SpecRepeatedDeletes == Init /\ [][NextRepeatedDeletes]_vars

\* ---- the calculators and the router, applied to drawn inputs ----

\* A route: HTTP method, path template below the prefix /api/v1 with "{}" for
\* a path parameter, and the handler it is bound to.
Route(m, t, h) == [method |-> m, template |-> t, handler |-> h]

\* The routes of the invoice router in the order of their decorators.
InvoiceRoutes ==
    << Route("GET", <<"invoices">>, "get_invoices"),
       Route("GET", <<"invoices", "{}">>, "get_invoice"),
       Route("POST", <<"invoices">>, "create_invoice"),
       Route("POST", <<"invoices", "with-items">>, "create_invoice_with_items"),
       Route("PUT", <<"invoices", "{}">>, "update_invoice"),
       Route("DELETE", <<"invoices", "{}">>, "delete_invoice"),
       Route("GET", <<"invoices", "stats">>, "get_invoice_stats") >>

\* The routes of the invoice item router in the order of their decorators.
InvoiceItemRoutes ==
    << Route("GET", <<"invoices", "{}", "items">>, "get_invoice_items"),
       Route("GET", <<"invoice-items", "{}">>, "get_invoice_item"),
       Route("POST", <<"invoices", "{}", "items">>, "create_invoice_item"),
       Route("PUT", <<"invoice-items", "{}">>, "update_invoice_item"),
       Route("DELETE", <<"invoice-items", "{}">>, "delete_invoice_item") >>

\* The routes of the liquidaciones router in the order of their decorators.
LiquidacionRoutes ==
    << Route("GET", <<"liquidaciones">>, "get_liquidaciones"),
       Route("GET", <<"liquidaciones", "stats">>, "get_liquidacion_stats"),
       Route("GET", <<"liquidaciones", "{}">>, "get_liquidacion"),
       Route("POST", <<"liquidaciones">>, "create_liquidacion"),
       Route("PUT", <<"liquidaciones", "{}">>, "update_liquidacion"),
       Route("DELETE", <<"liquidaciones", "{}">>, "delete_liquidacion") >>

\* The routes of the provedores router in the order of their decorators.
ProvedorRoutes ==
    << Route("GET", <<"provedores">>, "get_provedores"),
       Route("GET", <<"provedores", "{}">>, "get_provedor"),
       Route("POST", <<"provedores">>, "create_provedor"),
       Route("PUT", <<"provedores", "{}">>, "update_provedor"),
       Route("DELETE", <<"provedores", "{}">>, "delete_provedor"),
       Route("GET", <<"provedores", "stats">>, "get_provedor_stats") >>

\* The route table of each application: main.py of the facturas service
\* includes the invoice router, then the invoice item router.
Services == {"facturas", "liquidaciones", "provedores"}

AppRoutes(service) ==
    CASE service = "facturas" -> InvoiceRoutes \o InvoiceItemRoutes
      [] service = "liquidaciones" -> LiquidacionRoutes
      [] service = "provedores" -> ProvedorRoutes

\* A template matches a path segment by segment; a parameter matches any
\* one segment.
PathMatches(template, path) ==
    /\ Len(template) = Len(path)
    /\ \A i \in 1..Len(path) : template[i] = "{}" \/ template[i] = path[i]

\* The value of a path segment declared int, NULL when it is not a number.
ParseInt(segment) ==
    CASE segment = "0" -> 0
      [] segment = "1" -> 1
      [] OTHER -> NULL

\* Path(..., ge=1) on every path parameter of the four routers.
ParamsValid(template, path) ==
    \A i \in 1..Len(path) :
        template[i] = "{}" => (ParseInt(path[i]) # NULL /\ ParseInt(path[i]) >= 1)

\* The router walks its routes in registration order and takes the first
\* whose template and method both match (0: none).
FirstMatch(routes, method, path) ==
    LET full == { i \in 1..Len(routes) :
                     PathMatches(routes[i].template, path) /\ routes[i].method = method }
    IN IF full = {} THEN 0 ELSE CHOOSE i \in full : \A j \in full : i <= j

\* The fields of the three statistics responses that the handler returns.
StatsFields(handler) ==
    CASE handler = "get_invoice_stats" ->
            {"total", "paid", "unpaid", "loaded_in_liquidation", "total_amount",
             "paid_amount", "unpaid_amount"}
      [] handler = "get_liquidacion_stats" ->
            {"total", "activas", "inactivas", "por_estado"}
      [] handler = "get_provedor_stats" ->
            {"total", "activos", "inactivos", "por_estado", "por_tipo"}

StatsHandlers == {"get_invoice_stats", "get_liquidacion_stats", "get_provedor_stats"}

\* What the application answers to a request before and up to the call of
\* the handler: no route with that path (404), a route with that path under
\* another method only (405), a path parameter that fails validation (422),
\* or the handler is entered (status left to the handler: NULL).
Dispatch(service, method, path) ==
    LET routes == AppRoutes(service)
        i == FirstMatch(routes, method, path)
    IN IF i = 0
       THEN IF \E j \in 1..Len(routes) : PathMatches(routes[j].template, path)
            THEN [handler |-> "none", entered |-> FALSE, status |-> 405]
            ELSE [handler |-> "none", entered |-> FALSE, status |-> 404]
       ELSE IF ~ParamsValid(routes[i].template, path)
            THEN [handler |-> routes[i].handler, entered |-> FALSE, status |-> 422]
            ELSE [handler |-> routes[i].handler, entered |-> TRUE, status |-> NULL]

\* Requests sent to the applications: paths of one to three segments.
Methods == {"GET", "POST", "PUT", "DELETE"}

Segments == {"invoices", "invoice-items", "liquidaciones", "provedores",
             "stats", "with-items", "items", "0", "1"}

Paths == { <<a>> : a \in Segments } \cup (Segments \X Segments)
            \cup { <<"invoices", a, "items">> : a \in Segments }

DispatchCalls == [op : {"dispatch"}, service : Services, method : Methods, path : Paths]

\* ---- get_all: pagination ----

\* pages = (total + limit - 1) // limit if total > 0 else 0
PageCount(total, limit) ==
    IF total > 0 THEN (total + limit - 1) \div limit ELSE 0

\* The matching rows of a listing, by id: the issue_date of each (the sort key
\* of the invoice listing; the other two listings sort by id).
Listings == UNION { [1..n -> {1, 2}] : n \in 0..MaxRows }

\* The sequences that hold each id of the listing once.
Orderings(rows) ==
    { o \in [1..Len(rows) -> 1..Len(rows)] :
        \A i, j \in 1..Len(rows) : i # j => o[i] # o[j] }

\* The results query.order_by(...).all() can return.  Invoices are ordered by
\* desc(issue_date), which leaves rows of equal issue_date in an order the
\* database picks for each query; the other two are ordered by desc(id).
OrderedResults(service, rows) ==
    IF service = "facturas"
    THEN { o \in Orderings(rows) :
             \A i, j \in 1..Len(rows) : i < j => rows[o[i]] >= rows[o[j]] }
    ELSE { o \in Orderings(rows) : \A i, j \in 1..Len(rows) : i < j => o[i] > o[j] }

\* .offset((page - 1) * limit).limit(limit) of an ordered result
PageOf(ordered, page, limit) ==
    LET offset == (page - 1) * limit
    IN [k \in 1..(IF Len(ordered) - offset > limit THEN limit
                  ELSE IF Len(ordered) - offset > 0 THEN Len(ordered) - offset
                  ELSE 0) |-> ordered[offset + k]]

\* A client that lists a service page by page.
GetAllCalls ==
    [op : {"get_all"}, service : Services, rows : Listings, limit : 1..MaxRows]

\* ---- get_stats ----

\* The invoices table as get_stats reads it: the paid flag (Boolean, NOT NULL)
\* and the total_amount of each row.
StatsTables ==
    UNION { [1..n -> [paid : BOOLEAN, total_amount : {0, 357 * Cent}]] : n \in 0..MaxRows }

\* Faulty variant of WherePaid: the filter has lost its condition.
WherePaidAny(rows, flag) == DOMAIN rows

\* query(Invoice).filter(Invoice.paid == flag)
WherePaid(rows, flag) == { i \in DOMAIN rows : rows[i].paid = flag }

\* func.sum(Invoice.total_amount) over the rows ids: NULL when there is none.
SumOrNone(rows, ids) == IF ids = {} THEN NULL ELSE SumTotalAmount(rows, ids)

\* scalar() or Decimal('0')
OrZero(x) == IF x = NULL \/ x = 0 THEN 0 ELSE x

\* InvoiceService.get_stats: three counts and three sums, each a query of the
\* one transaction of the request (a single snapshot of the table).
GetStats(rows) ==
    [total |-> Cardinality(DOMAIN rows),
     paid |-> Cardinality(WherePaid(rows, TRUE)),
     unpaid |-> Cardinality(WherePaid(rows, FALSE)),
     total_amount |-> OrZero(SumOrNone(rows, DOMAIN rows)),
     paid_amount |-> OrZero(SumOrNone(rows, WherePaid(rows, TRUE))),
     unpaid_amount |-> OrZero(SumOrNone(rows, WherePaid(rows, FALSE)))]

GetStatsCalls == [op : {"get_stats"}, rows : StatsTables]

\* Arguments of _calculate_totals: every field absent or present, with zero
\* among the present quantities and subtotals.
CalculateTotalsCalls ==
    [op : {"calculate_totals"},
     quantity : {NULL, 0, 2}, unit_price : {NULL, 150 * Cent},
     subtotal : {NULL, 0, 100 * Cent}, tax_rate : {NULL, 19},
     tax_amount : {NULL, 5 * Cent}, total_amount : {NULL, 357 * Cent}]

\* The calls the pure operations are applied to.
PureCalls == CalculateTotalsCalls \cup DispatchCalls \cup GetAllCalls \cup GetStatsCalls

\* One call is drawn; nothing is stored.
InitPure ==
    /\ invoices = << >>
    /\ items = << >>
    /\ next_invoice_id = 1
    /\ next_item_id = 1
    /\ pc = [r \in Requests |-> "idle"]
    /\ \E c \in PureCalls : call = [r \in Requests |-> IF r = 1 THEN c ELSE NoCall]
    /\ result = [r \in Requests |-> "none"]
    /\ response = [r \in Requests |-> NoResponse]
    /\ before = [r \in Requests |-> NoRows]
    /\ local = [r \in Requests |-> NoLocal]
    /\ ops = 0
    /\ overlaps = 0
    /\ provedores = << >>
    /\ liquidaciones = << >>
    /\ startup = NotStarted

\* InvoiceItemService._calculate_totals applied to the drawn arguments.
ApplyCalculateTotals(r) ==
    /\ pc[r] = "idle"
    /\ call[r].op = "calculate_totals"
    /\ LET c == call[r]
       IN Finish(r, "ok", CalculateTotals(c.quantity, c.unit_price, c.subtotal,
                                          c.tax_rate, c.tax_amount, c.total_amount))
    /\ UNCHANGED <<store, call, before, local, ops, overlaps, registers, startup>>

\* One HTTP request is routed; a statistics handler that is entered returns
\* its response (200) or fails (500).
ApplyDispatch(r) ==
    /\ pc[r] = "idle"
    /\ call[r].op = "dispatch"
    /\ LET d == Dispatch(call[r].service, call[r].method, call[r].path)
       IN IF d.entered /\ d.handler \in StatsHandlers
          THEN \E fail \in BOOLEAN :
                  Finish(r, d.handler,
                         [id |-> NULL, status |-> IF fail THEN 500 ELSE 200,
                          fields |-> IF fail THEN {} ELSE StatsFields(d.handler)])
          ELSE Finish(r, d.handler, [id |-> NULL, status |-> d.status, fields |-> {}])
    /\ UNCHANGED <<store, call, before, local, ops, overlaps, registers, startup>>

\* The pages the client of request r has fetched so far.
Fetched(r) == IF response[r] = NoResponse THEN << >> ELSE response[r].fetched

\* One get_all call: the client asks for the page after the ones it has, up to
\* one page past the last; each call counts the rows and runs its own ordered
\* query.
GetAll(r) ==
    /\ pc[r] = "idle"
    /\ call[r].op = "get_all"
    /\ LET c == call[r]
           page == Len(Fetched(r)) + 1
           total == Len(c.rows)
           pages == PageCount(total, c.limit)
       IN \E ordered \in OrderedResults(c.service, c.rows) :
            /\ response' = [response EXCEPT ![r] =
                    [id |-> NULL, total |-> total, pages |-> pages,
                     fetched |-> Append(Fetched(r), PageOf(ordered, page, c.limit))]]
            /\ pc' = [pc EXCEPT ![r] = IF page > pages THEN "done" ELSE "idle"]
            /\ result' = [result EXCEPT ![r] = "ok"]
    /\ UNCHANGED <<store, call, before, local, ops, overlaps, registers, startup>>

\* InvoiceService.get_stats applied to the drawn table.
ApplyGetStats(r) ==
    /\ pc[r] = "idle"
    /\ call[r].op = "get_stats"
    /\ Finish(r, "ok", GetStats(call[r].rows))
    /\ UNCHANGED <<store, call, before, local, ops, overlaps, registers, startup>>

NextPure ==
    \E r \in Requests :
        \/ ApplyCalculateTotals(r)
        \/ ApplyDispatch(r)
        \/ GetAll(r)
        \/ ApplyGetStats(r)

SpecPure == InitPure /\ [][NextPure]_vars

\* ---- lifespan: service startup ----

\* Values of ENVIRONMENT: the default, and any other.
Environments == {"development", "production"}

\* Everything lifespan leaves alone.
serving == <<store, pc, call, result, response, before, local, ops, overlaps,
             registers>>

\* The log after one more message.
Logged(message) == Append(startup.logged, message)

\* ensure_database_exists returns False on any exception; lifespan logs the
\* failure and continues.
EnsureDatabaseExists ==
    /\ startup.at = "ensure"
    /\ \E ok \in BOOLEAN :
           startup' = [startup EXCEPT
                           !.at = "connect",
                           !.logged = IF ok THEN @ ELSE Logged("ensure_failed")]
    /\ UNCHANGED serving

\* One iteration of the retry loop up to its sleep: test_db_connection
\* returns True (break) or False (warning, then sleep).
TestDbConnection ==
    /\ startup.at = "connect"
    /\ \E ok \in BOOLEAN :
           startup' = [startup EXCEPT
                           !.attempts = @ + 1,
                           !.connected = ok,
                           !.at = IF ok THEN "init_db" ELSE "sleep",
                           !.logged = Logged(IF ok THEN "connected"
                                                   ELSE "attempt_failed")]
    /\ UNCHANGED serving

\* asyncio.sleep(3) returns: the next iteration, or, when range(max_retries)
\* is exhausted, the else clause of the loop.
Sleep ==
    /\ startup.at = "sleep"
    /\ startup' = IF startup.attempts < MaxRetries
                  THEN [startup EXCEPT !.at = "connect"]
                  ELSE [startup EXCEPT !.at = "init_db",
                                       !.logged = Logged("could_not_connect")]
    /\ UNCHANGED serving

\* Faulty variant of InitDb: the exception of init_db leaves lifespan.
InitDbUnguarded ==
    /\ startup.at = "init_db"
    /\ \E ok \in BOOLEAN :
           startup' = [startup EXCEPT
                           !.at = IF ok THEN "migrations" ELSE "failed",
                           !.logged = Logged(IF ok THEN "tables_initialized"
                                                   ELSE "init_error")]
    /\ UNCHANGED serving

\* init_db inside try/except Exception: it returns or raises, and either way
\* lifespan goes on.
InitDb ==
    /\ startup.at = "init_db"
    /\ \E ok \in BOOLEAN :
           startup' = [startup EXCEPT
                           !.at = "migrations",
                           !.logged = Logged(IF ok THEN "tables_initialized"
                                                   ELSE "init_error")]
    /\ UNCHANGED serving

\* run_migrations inside try/except Exception.
RunMigrations ==
    /\ startup.at = "migrations"
    /\ \E ok \in BOOLEAN :
           startup' = [startup EXCEPT
                           !.at = "seeds",
                           !.logged = IF ok THEN @ ELSE Logged("migration_error")]
    /\ UNCHANGED serving

\* run_seeds inside try/except Exception, in development only.
RunSeeds ==
    /\ startup.at = "seeds"
    /\ \E ok \in IF startup.environment = "development" THEN BOOLEAN ELSE {TRUE} :
           startup' = [startup EXCEPT
                           !.at = "started",
                           !.logged = IF ok THEN @ ELSE Logged("seeding_error")]
    /\ UNCHANGED serving

\* "Application started successfully", then yield: the application runs.
Started ==
    /\ startup.at = "started"
    /\ startup' = [startup EXCEPT !.at = "running", !.logged = Logged("started")]
    /\ UNCHANGED serving

\* The code after yield.
Shutdown ==
    /\ startup.at = "running"
    /\ startup' = [startup EXCEPT !.at = "stopped",
                                  !.logged = Logged("shutdown_complete")]
    /\ UNCHANGED serving

InitStartup ==
    /\ invoices = << >>
    /\ items = << >>
    /\ next_invoice_id = 1
    /\ next_item_id = 1
    /\ pc = [r \in Requests |-> "idle"]
    /\ call = [r \in Requests |-> NoCall]
    /\ result = [r \in Requests |-> "none"]
    /\ response = [r \in Requests |-> NoResponse]
    /\ before = [r \in Requests |-> NoRows]
    /\ local = [r \in Requests |-> NoLocal]
    /\ ops = 0
    /\ overlaps = 0
    /\ provedores = << >>
    /\ liquidaciones = << >>
    /\ \E e \in Environments :
           startup = [NotStarted EXCEPT !.at = "ensure", !.environment = e]

\* The steps of lifespan before yield.
StartupStep ==
    \/ EnsureDatabaseExists
    \/ TestDbConnection
    \/ Sleep
    \/ InitDb
    \/ RunMigrations
    \/ RunSeeds
    \/ Started

NextStartup == StartupStep \/ Shutdown

\* The event loop runs the lifespan coroutine to its yield: every call it
\* makes returns or raises (connect_timeout, pool_timeout) and the sleep ends.
\* Shutdown happens only when the server is stopped.
SpecStartup == InitStartup /\ [][NextStartup]_vars /\ WF_vars(StartupStep)

\* ---- properties ----

ItemOps == {"item_create", "item_update", "item_delete"}

Failures == {"not_found", "invalid_dates", "invalid_total", "error"}

\* Request r has run its operation to the end.
Done(r) == pc[r] = "done"

\* Request r has completed an item create, update or delete successfully.
ItemOpCompleted(r) == Done(r) /\ result[r] = "ok" /\ call[r].op \in ItemOps

\* The sum of total_amount over the stored items of invoice inv.
StoredItemSum(its, inv) == SumTotalAmount(its, ItemsOf(its, inv))

C2_TotalIsSomeReadSum ==
    \A r1, r2 \in Requests :
        ( /\ r1 # r2
          /\ ItemOpCompleted(r1) /\ ItemOpCompleted(r2)
          /\ local[r1].invoice_id = local[r2].invoice_id
          /\ local[r1].invoice_id \in DOMAIN invoices
          /\ local[r1].total # NULL /\ local[r2].total # NULL )
        => invoices[local[r1].invoice_id].total_amount \in
               { SumTotalAmount(local[r1].items, DOMAIN local[r1].items),
                 SumTotalAmount(local[r2].items, DOMAIN local[r2].items) }

\* C2 witness: two concurrent item requests on one invoice have both completed
\* successfully and the stored total differs from the sum of the stored items.
C2_Witness ==
    \E r1, r2 \in Requests :
        /\ r1 # r2
        /\ ItemOpCompleted(r1) /\ ItemOpCompleted(r2)
        /\ local[r1].invoice_id = local[r2].invoice_id
        /\ local[r1].invoice_id \in DOMAIN invoices
        /\ invoices[local[r1].invoice_id].total_amount
               # StoredItemSum(items, local[r1].invoice_id)

\* C3 (as claimed): a mutating operation that has failed has left the stored
\* invoices and items exactly as they were when it started.
C3_FailureLeavesStoreUnchanged ==
    \A r \in Requests :
        (Done(r) /\ result[r] \in Failures) => Rows = before[r]

\* C4: create_with_items is all-or-nothing.  While the invoice is flushed and
\* not committed, and after any failure, the store holds neither the invoice nor
\* any of its items and is as it was; after success it holds the invoice and
\* one item per item of the request.
C4_NestedCreateAtomic ==
    \A r \in Requests :
        call[r].op = "create_with_items" =>
            LET id == local[r].invoice_id
            IN /\ pc[r] = "cwi_flushed" =>
                    /\ id \notin DOMAIN invoices
                    /\ ItemsOf(items, id) = {}
                    /\ Rows = before[r]
               /\ (Done(r) /\ result[r] # "ok") =>
                    /\ id # NULL => (id \notin DOMAIN invoices /\ ItemsOf(items, id) = {})
                    /\ Rows = before[r]
               /\ (Done(r) /\ result[r] = "ok") =>
                    /\ id \in DOMAIN invoices
                    /\ Cardinality(ItemsOf(items, id)) = Len(call[r].items)

\* C4 witness: a create_with_items has failed after its invoice was flushed.
C4_Witness ==
    \E r \in Requests :
        /\ call[r].op = "create_with_items"
        /\ Done(r) /\ result[r] = "error"
        /\ local[r].invoice_id # NULL

\* The sum of the request's item totals, each computed by the item-total rules.
RequestItemsTotal(c) ==
    SumSeq([k \in 1..Len(c.items) |-> CalculateItemTotals(c.items[k]).total_amount])

ItemMatches(returned, inv, item) ==
    /\ returned.invoice_id = inv
    /\ returned.quantity = item.quantity
    /\ returned.unit_price = item.unit_price
    /\ returned.tax_rate = item.tax_rate
    /\ returned.subtotal = CalculateItemTotals(item).subtotal
    /\ returned.tax_amount = CalculateItemTotals(item).tax_amount
    /\ returned.total_amount = item.total_amount

\* create_with_items has returned the new invoice, with an id, carrying exactly
\* one matching item per item of the request.
NestedCreateSucceeded(r) ==
    /\ result[r] = "ok"
    /\ response[r].id # NULL
    /\ response[r].id \in DOMAIN invoices
    /\ Len(response[r].items) = Len(call[r].items)
    /\ \A k \in 1..Len(call[r].items) :
          ItemMatches(response[r].items[k], response[r].id, call[r].items[k])
    /\ Cardinality(ItemsOf(items, response[r].id)) = Len(call[r].items)

C7_NestedTotalIsItemSum ==
    \A r \in Requests :
        ( /\ Done(r) /\ call[r].op = "create_with_items" /\ result[r] = "ok"
          /\ call[r].total_amount = NULL )
        => /\ invoices[response[r].id].total_amount = RequestItemsTotal(call[r])
           /\ invoices[response[r].id].total_amount = StoredItemSum(items, response[r].id)

\* The stored total of the invoice of request r when r started (NULL: none).
TotalBefore(r) ==
    IF local[r].invoice_id \in DOMAIN before[r].invoices
    THEN before[r].invoices[local[r].invoice_id].total_amount
    ELSE NULL

\* The sum of the stored items of the invoice of request r when r started.
ItemSumBefore(r) == StoredItemSum(before[r].items, local[r].invoice_id)

DeletedTotal(r) == before[r].items[local[r].item_id].total_amount

Status(r) == RouteStatus(call[r].op, result[r])

\* C11: an item create for an invoice id that is not stored ends with the
\* not-found error, answered 404, and leaves every stored invoice and item as
\* it was: no item is stored and no invoice total changes.
C11_CreateForMissingInvoiceNotFound ==
    \A r \in Requests :
        ( /\ Done(r) /\ call[r].op = "item_create"
          /\ call[r].invoice_id \notin DOMAIN before[r].invoices )
        => /\ result[r] = "not_found"
           /\ Status(r) = 404
           /\ items = before[r].items
           /\ invoices = before[r].invoices

\* C11 witness: an item create for a missing invoice id has ended while other
\* invoices are stored.
C11_Witness ==
    \E r \in Requests :
        /\ Done(r) /\ call[r].op = "item_create"
        /\ call[r].invoice_id \notin DOMAIN before[r].invoices
        /\ before[r].invoices # << >>

\* The request of r supplies both dates and its departure is before its arrival.
DepartureBeforeArrival(c) ==
    /\ c.arrival_date \in Nat
    /\ c.departure_date \in Nat
    /\ c.departure_date < c.arrival_date

\* C12: an invoice create or nested create whose request supplies both dates
\* with the departure before the arrival ends in the date validation error,
\* answered 400, with the stored rows as they were; a request with equal dates,
\* ordered dates or a date absent never ends in that error.
C12_ReversedDatesRejected ==
    \A r \in Requests :
        (Done(r) /\ call[r].op \in {"invoice_create", "create_with_items"}) =>
            IF DepartureBeforeArrival(call[r])
            THEN /\ result[r] = "invalid_dates"
                 /\ Status(r) = 400
                 /\ Rows = before[r]
            ELSE result[r] # "invalid_dates"

\* An invoice stored with the pair of dates (a, d).
StoredWithDates(a, d) ==
    \E i \in DOMAIN invoices :
        invoices[i].arrival_date = a /\ invoices[i].departure_date = d

\* C12 witness: a nested create with reversed dates has been rejected while
\* invoices with equal dates and with only one date are stored.
C12_Witness ==
    /\ \E r \in Requests :
          /\ Done(r) /\ call[r].op = "create_with_items"
          /\ DepartureBeforeArrival(call[r])
          /\ result[r] = "invalid_dates"
    /\ StoredWithDates(1, 1)
    /\ StoredWithDates(2, NULL) \/ StoredWithDates(NULL, 1)

\* No request of the model supplies field f of an item: every create, nested
\* create and update request leaves it out.
NeverSupplied(f) ==
    /\ \A req \in ItemCreateRequests : req[f] = NULL
    /\ \A its \in NestedItems : \A k \in 1..Len(its) : its[k][f] = NULL
    /\ \A req \in ItemUpdateRequests : Val(req[f]) = NULL

\* C13 (as claimed): every stored item whose subtotal no caller ever supplied
\* has subtotal = quantity * unit_price for its stored quantity and unit_price
\* (when both are present), and likewise tax_amount = subtotal * tax_rate / 100
\* (when a tax rate is present and the subtotal positive) if no caller ever
\* supplied its tax_amount.
C13_DerivedFieldsFollowStoredInputs ==
    \A i \in DOMAIN items :
        LET it == items[i]
        IN /\ ( /\ NeverSupplied("subtotal")
                /\ it.quantity # NULL /\ it.unit_price # NULL )
              => it.subtotal = Round2(it.quantity * it.unit_price)
           /\ ( /\ NeverSupplied("tax_amount")
                /\ it.tax_rate # NULL /\ it.subtotal > 0 )
              => it.tax_amount = Round2((it.subtotal * it.tax_rate) \div 100)

\* C14: _calculate_totals returns, for every combination of present and absent
\* arguments: as subtotal the supplied subtotal, else quantity * unit_price when
\* both are present, else 0; as tax_amount the supplied tax_amount, else
\* subtotal * tax_rate / 100 when the tax rate is present and that subtotal is
\* positive, else 0; as total_amount the supplied total_amount, else that
\* subtotal plus that tax_amount.  It returns for every combination.
C14_CalculateTotalsRules ==
    \A r \in Requests :
        (Done(r) /\ call[r].op = "calculate_totals") =>
            LET c == call[r]
                out == response[r]
            IN /\ result[r] = "ok"
               /\ c.subtotal # NULL => out.subtotal = c.subtotal
               /\ (c.subtotal = NULL /\ c.quantity # NULL /\ c.unit_price # NULL)
                      => out.subtotal = c.quantity * c.unit_price
               /\ (c.subtotal = NULL /\ (c.quantity = NULL \/ c.unit_price = NULL))
                      => out.subtotal = 0
               /\ c.tax_amount # NULL => out.tax_amount = c.tax_amount
               /\ (c.tax_amount = NULL /\ c.tax_rate # NULL /\ out.subtotal > 0)
                      => 100 * out.tax_amount = out.subtotal * c.tax_rate
               /\ (c.tax_amount = NULL /\ (c.tax_rate = NULL \/ out.subtotal <= 0))
                      => out.tax_amount = 0
               /\ c.total_amount # NULL => out.total_amount = c.total_amount
               /\ c.total_amount = NULL
                      => out.total_amount = out.subtotal + out.tax_amount

\* C14 witness: the calculator has been applied to an inconsistent combination:
\* a supplied subtotal that is not quantity * unit_price and a supplied total
\* that is not subtotal plus tax.
C14_Witness ==
    \E r \in Requests :
        /\ Done(r) /\ call[r].op = "calculate_totals"
        /\ call[r].quantity # NULL /\ call[r].unit_price # NULL
        /\ call[r].subtotal # NULL
        /\ call[r].subtotal # call[r].quantity * call[r].unit_price
        /\ call[r].tax_amount = NULL /\ call[r].tax_rate # NULL
        /\ call[r].total_amount # NULL
        /\ response[r].total_amount # response[r].subtotal + response[r].tax_amount

\* Whether the update request req supplies field f (a value, not null).
Supplied(req, f) == Val(req[f]) # NULL

\* The value of field f the update works with: the request's if supplied, else
\* the stored one.
Merged(old, req, f) == IF Supplied(req, f) THEN req[f] ELSE old[f]

\* The item-total rules applied to the merged values of old and req.
RulesOnMerged(old, req) ==
    CalculateTotals(Merged(old, req, "quantity"), Merged(old, req, "unit_price"),
                    Merged(old, req, "subtotal"), Merged(old, req, "tax_rate"),
                    Merged(old, req, "tax_amount"), Merged(old, req, "total_amount"))

TotalFields == {"subtotal", "tax_amount", "total_amount"}

\* C15: after a successful item update, if the request supplies quantity,
\* unit_price, subtotal or tax_rate, the stored subtotal, tax_amount and
\* total_amount are what the item-total rules give for the merged values; if it
\* supplies none of the four, each of the three is the request's value where
\* the request supplies it and the stored value otherwise.  Either way the
\* invoice's total is then the sum of its items.
C15_UpdateRecomputesOnMergedValues ==
    \A r \in Requests :
        (ItemOpCompleted(r) /\ call[r].op = "item_update") =>
            LET id == call[r].item_id
                req == call[r].request
                old == before[r].items[id]
                new == items[id]
            IN /\ IF \E f \in {"quantity", "unit_price", "subtotal", "tax_rate"} :
                          Supplied(req, f)
                  THEN \A f \in TotalFields : new[f] = RulesOnMerged(old, req)[f]
                  ELSE \A f \in TotalFields : new[f] = Merged(old, req, f)
               /\ invoices[new.invoice_id].total_amount
                      = StoredItemSum(items, new.invoice_id)

\* C15 witness: an update that supplied a new quantity and a new total has
\* completed, and the invoice total has followed.
C15_Witness ==
    \E r \in Requests :
        /\ ItemOpCompleted(r) /\ call[r].op = "item_update"
        /\ Supplied(call[r].request, "quantity")
        /\ Supplied(call[r].request, "total_amount")
        /\ items[call[r].item_id].total_amount
               # before[r].items[call[r].item_id].total_amount
        /\ invoices[local[r].invoice_id].total_amount
               # before[r].invoices[local[r].invoice_id].total_amount

\* C16: when the recalculation runs for an invoice id that is not stored and no
\* storage failure occurs, it raises nothing (the operation goes on to
\* succeed) and the step leaves every table and counter as it was.
C16_RecalculateMissingInvoiceNoOp ==
    [][ \A r \in Requests :
          ( /\ pc[r] = "recalc_read"
            /\ local[r].invoice_id \notin DOMAIN invoices
            /\ pc'[r] # "recalc_read"
            /\ result'[r] # "error" )
          => /\ pc'[r] = "done"
             /\ result'[r] = "ok"
             /\ store' = store ]_vars

\* C16 witness: an item operation has completed successfully although its
\* invoice was gone when the recalculation looked for it (another request had
\* deleted the invoice since the item's commit), so nothing was summed.
C16_Witness ==
    \E r \in Requests :
        /\ ItemOpCompleted(r)
        /\ local[r].invoice_id \notin DOMAIN invoices
        /\ local[r].total = NULL

\* C17: every stored item references a stored invoice (its one invoice_id); and
\* a successful invoice delete has removed the invoice and every item that
\* referenced it, and has left every other item as it was.
C17_ItemsOwnedAndCascaded ==
    /\ \A i \in DOMAIN items : items[i].invoice_id \in DOMAIN invoices
    /\ \A r \in Requests :
          (Done(r) /\ call[r].op = "invoice_delete" /\ result[r] = "ok") =>
              LET id == call[r].invoice_id
                  was == before[r].items
              IN /\ id \notin DOMAIN invoices
                 /\ DOMAIN items \subseteq DOMAIN was
                 /\ \A i \in DOMAIN was :
                       IF was[i].invoice_id = id
                       THEN i \notin DOMAIN items
                       ELSE i \in DOMAIN items /\ items[i] = was[i]

\* C17 witness: an invoice that had items has been deleted while another
\* invoice keeps its items.
C17_Witness ==
    \E r \in Requests :
        /\ Done(r) /\ call[r].op = "invoice_delete" /\ result[r] = "ok"
        /\ \E i \in DOMAIN before[r].items :
              before[r].items[i].invoice_id = call[r].invoice_id
        /\ items # << >>

\* Request r takes a step in which its operation op ends successfully.
Succeeds(r, op) ==
    /\ pc[r] # "done" /\ pc'[r] = "done"
    /\ call'[r].op = op /\ result'[r] = "ok"

\* C18: a successful ProvedorService.delete or LiquidacionService.delete sets
\* the status field of the record to 0 and changes nothing else: the record
\* keeps its other fields, get_by_id still returns it, and the table holds the
\* same ids.  A successful InvoiceService.delete or InvoiceItemService.delete
\* removes the row: get_by_id then returns nothing, also after the operations
\* of other requests that follow.
C18_DeletePolicies ==
    [][ \A r \in Requests :
          /\ Succeeds(r, "provedor_delete") =>
               LET id == call'[r].id
               IN /\ DOMAIN provedores' = DOMAIN provedores
                  /\ GetById(provedores', id) # {}
                  /\ provedores'[id].provedor_estado = 0
                  /\ provedores'[id].provedor_nombre = provedores[id].provedor_nombre
                  /\ \A i \in DOMAIN provedores \ {id} : provedores'[i] = provedores[i]
          /\ Succeeds(r, "liquidacion_delete") =>
               LET id == call'[r].id
               IN /\ DOMAIN liquidaciones' = DOMAIN liquidaciones
                  /\ GetById(liquidaciones', id) # {}
                  /\ liquidaciones'[id].estado = 0
                  /\ liquidaciones'[id].nombre_asesor = liquidaciones[id].nombre_asesor
                  /\ \A i \in DOMAIN liquidaciones \ {id} : liquidaciones'[i] = liquidaciones[i]
          /\ Succeeds(r, "invoice_delete") =>
               /\ GetById(before'[r].invoices, call'[r].invoice_id) # {}
               /\ GetById(invoices', call'[r].invoice_id) = {}
          /\ Succeeds(r, "item_delete") =>
               /\ GetById(before'[r].items, call'[r].item_id) # {}
               /\ GetById(items', call'[r].item_id) = {}
          /\ (pc'[r] = "done" /\ result'[r] = "ok") =>
               /\ call'[r].op = "invoice_delete" =>
                    GetById(invoices', call'[r].invoice_id) = {}
               /\ call'[r].op = "item_delete" =>
                    GetById(items', call'[r].item_id) = {} ]_vars

\* C18 witness: a provedor that was active has been deleted and is still
\* stored, with status 0.
C18_Witness ==
    \E r \in Requests :
        /\ Done(r) /\ call[r].op = "provedor_delete" /\ result[r] = "ok"
        /\ call[r].id \in DOMAIN provedores
        /\ provedores[call[r].id].provedor_estado = 0
        /\ \E i \in DOMAIN provedores : provedores[i].provedor_estado = 1

\* The request GET /api/v1/<path> to a service has been answered.
Answered(r, service, path) ==
    /\ Done(r) /\ call[r].op = "dispatch"
    /\ call[r].service = service /\ call[r].method = "GET" /\ call[r].path = path

\* C19: GET /api/v1/invoices/stats reaches get_invoice_stats, and when the
\* handler does not fail the answer is 200 with the fields total, paid,
\* unpaid and total_amount.
C19_StatsRouteReachesStatsHandler ==
    \A r \in Requests :
        Answered(r, "facturas", <<"invoices", "stats">>) =>
            /\ result[r] = "get_invoice_stats"
            /\ response[r].status \in {200, 500}
            /\ response[r].status = 200 =>
                 {"total", "paid", "unpaid", "total_amount"} \subseteq response[r].fields

\* The record the operation of request r addresses did not exist when the
\* operation started.
Missing(r) ==
    LET c == call[r]
    IN CASE c.op \in {"invoice_update", "invoice_delete", "invoice_get",
                      "invoice_items_get", "item_create"} ->
                c.invoice_id \notin DOMAIN before[r].invoices
         [] c.op \in {"item_update", "item_delete", "item_get"} ->
                c.item_id \notin DOMAIN before[r].items
         [] OTHER -> FALSE

\* The request of r breaks the date order (an update: with the stored dates
\* for the ones it leaves out) or carries a total that is not the sum of its
\* items.
Violates(r) ==
    LET c == call[r]
    IN CASE c.op = "invoice_create" -> DepartureBeforeArrival(c)
         [] c.op = "create_with_items" ->
                \/ DepartureBeforeArrival(c)
                \/ /\ c.total_amount # NULL
                   /\ Abs(c.total_amount - NestedItemsTotal(c.items)) > Tolerance
         [] c.op = "invoice_update" ->
                /\ ~Missing(r)
                /\ LET old == before[r].invoices[c.invoice_id]
                       a == IF c.request.arrival_date \in {UNSET, NULL}
                            THEN old.arrival_date ELSE c.request.arrival_date
                       d == IF c.request.departure_date \in {UNSET, NULL}
                            THEN old.departure_date ELSE c.request.departure_date
                   IN a # NULL /\ d # NULL /\ d < a
         [] OTHER -> FALSE

\* C20: on every invoice and item endpoint a missing invoice or item is
\* answered 404 unless the lookup itself failed, and nothing else is answered
\* 404; a date-order or total-mismatch violation is answered 400, and nothing
\* else is; 500 is answered only for a failure that is neither.
C20_DistinctFailureResponses ==
    \A r \in Requests :
        (Done(r) /\ call[r].op \in {"invoice_create", "create_with_items", "invoice_update",
                                    "invoice_delete", "item_create", "item_update",
                                    "item_delete", "invoice_get", "invoice_items_get",
                                    "item_get"}) =>
            /\ (Missing(r) /\ result[r] # "error") => Status(r) = 404
            /\ (Missing(r) /\ call[r].op \notin {"invoice_get", "invoice_items_get", "item_get"})
                    => Status(r) = 404
            /\ Status(r) = 404 => Missing(r)
            /\ Violates(r) => Status(r) = 400
            /\ Status(r) = 400 => Violates(r)
            /\ Status(r) = 500 => (result[r] = "error" /\ ~Violates(r))

\* C20 witness: an update that puts the departure before the stored arrival
\* has been answered 400.
C20_Witness ==
    \E r \in Requests :
        /\ Done(r) /\ call[r].op = "invoice_update"
        /\ ~Missing(r) /\ Violates(r)
        /\ Status(r) = 400

\* C21: when update or delete of InvoiceItemService is called with an item id
\* that is not stored, the call returns at once with the not-found value
\* (None, False): no item and no invoice changes and the request never
\* enters the recalculation.
C21_AbsentItemUntouched ==
    [][ \A r \in Requests :
          ( /\ pc[r] = "idle" /\ pc'[r] # "idle"
            /\ call'[r].op \in {"item_update", "item_delete"}
            /\ call'[r].item_id \notin DOMAIN items ) =>
              /\ pc'[r] = "done"
              /\ result'[r] = "absent"
              /\ items' = items
              /\ invoices' = invoices
              /\ local'[r] = local[r] ]_vars

\* C21 witness: a delete of a missing item has returned while items and
\* invoices are stored.
C21_Witness ==
    \E r \in Requests :
        /\ Done(r) /\ call[r].op = "item_delete" /\ result[r] = "absent"
        /\ call[r].item_id \notin DOMAIN items
        /\ items # << >> /\ invoices # << >>

\* Request r has completed a create_with_items successfully.
NestedCreated(r) ==
    Done(r) /\ call[r].op = "create_with_items" /\ result[r] = "ok"

\* C22: right after a successful create_with_items the stored total_amount of
\* the new invoice is within 0.01 of the sum of total_amount over its stored
\* items, and a supplied total exactly 0.01 away from the computed item sum
\* has been stored, not the item sum.
C22_NestedTotalWithinTolerance ==
    \A r \in Requests :
        NestedCreated(r) =>
            LET id == response[r].id
                c == call[r]
            IN /\ id \in DOMAIN invoices
               /\ Abs(invoices[id].total_amount - StoredItemSum(items, id)) <= Tolerance
               /\ (c.total_amount # NULL
                     /\ Abs(c.total_amount - NestedItemsTotal(c.items)) = Tolerance) =>
                    invoices[id].total_amount = Round2(c.total_amount)

\* C23: on the same arguments, whichever of the six are absent,
\* InvoiceItemService._calculate_totals returns the subtotal, tax_amount and
\* total_amount that InvoiceService._calculate_item_totals returns.
C23_CalculatorsAgree ==
    \A r \in Requests :
        (Done(r) /\ call[r].op = "calculate_totals") =>
            response[r] = CalculateItemTotals(call[r])

\* C23 witness: both calculators were applied to the fixture item with every
\* derivable field absent, and derived 300.00, 57.00 and 357.00.
C23_Witness ==
    \E r \in Requests :
        /\ Done(r) /\ call[r].op = "calculate_totals"
        /\ call[r].subtotal = NULL /\ call[r].tax_amount = NULL
        /\ call[r].total_amount = NULL
        /\ response[r] = [subtotal |-> 300 * Cent, tax_amount |-> 57 * Cent,
                          total_amount |-> 357 * Cent]
        /\ CalculateItemTotals(call[r]).total_amount = 357 * Cent

\* The dates invoice id would be stored with if the update of request r were
\* applied: a field of the request that is set, to a day or to null, replaces
\* the stored one.
DatesAfterUpdate(r) ==
    LET old == before[r].invoices[call[r].invoice_id]
        req == call[r].request
    IN [arrival_date |-> IF req.arrival_date # UNSET
                         THEN req.arrival_date ELSE old.arrival_date,
        departure_date |-> IF req.departure_date # UNSET
                           THEN req.departure_date ELSE old.departure_date]

\* C24: every stored invoice that has both dates has its departure on or
\* after its arrival, whatever creations and updates came before; and an
\* update whose dates, once applied, would put the departure before the
\* arrival ends in the date validation error with the invoices as they were.
C24_StoredDatesOrdered ==
    /\ \A id \in DOMAIN invoices : ~DepartureBeforeArrival(invoices[id])
    /\ \A r \in Requests :
          ( /\ Done(r) /\ call[r].op = "invoice_update"
            /\ call[r].invoice_id \in DOMAIN before[r].invoices
            /\ DepartureBeforeArrival(DatesAfterUpdate(r)) ) =>
              /\ result[r] = "invalid_dates"
              /\ invoices = before[r].invoices

\* C24 witness: an update that supplied the departure only, earlier than the
\* stored arrival, has been rejected.
C24_Witness ==
    \E r \in Requests :
        /\ Done(r) /\ call[r].op = "invoice_update"
        /\ call[r].invoice_id \in DOMAIN before[r].invoices
        /\ call[r].request.arrival_date = UNSET
        /\ call[r].request.departure_date \in Nat
        /\ DepartureBeforeArrival(DatesAfterUpdate(r))
        /\ result[r] = "invalid_dates"

\* Request r takes a step of an item create, update or delete.
ItemOpStep(r) ==
    /\ pc'[r] # pc[r]
    /\ call'[r].op \in ItemOps

\* The step leaves every item but item j as it was.
OtherItemsKept(j) ==
    \A i \in (DOMAIN items \cup DOMAIN items') \ {j} :
        i \in DOMAIN items /\ i \in DOMAIN items' /\ items'[i] = items[i]

\* The step leaves every invoice but invoice x as it was, and stores and
\* removes none.
OtherInvoicesKept(x) ==
    /\ DOMAIN invoices' = DOMAIN invoices
    /\ \A i \in DOMAIN invoices \ {x} : invoices'[i] = invoices[i]

\* C25 (as claimed): every step of an item create, update or delete on an
\* item of invoice X leaves every other item and every other invoice as it
\* was, and changes no field of invoice X but total_amount.
C25_ItemOpFrame ==
    [][ \A r \in Requests :
          ItemOpStep(r) =>
              LET x == local'[r].invoice_id
                  j == local'[r].item_id
              IN /\ OtherItemsKept(j)
                 /\ OtherInvoicesKept(x)
                 /\ x \in DOMAIN invoices =>
                      [invoices'[x] EXCEPT !.total_amount = 0]
                          = [invoices[x] EXCEPT !.total_amount = 0] ]_vars

\* C25 (amended): every step of an item create, update or delete on an item
\* of invoice X leaves every other item and every other invoice as it was,
\* and changes no field of invoice X but total_amount and, when the total is
\* written, updated_at.
C25_ItemOpFrameButStamp ==
    [][ \A r \in Requests :
          ItemOpStep(r) =>
              LET x == local'[r].invoice_id
                  j == local'[r].item_id
              IN /\ OtherItemsKept(j)
                 /\ OtherInvoicesKept(x)
                 /\ x \in DOMAIN invoices =>
                      /\ [invoices'[x] EXCEPT !.total_amount = 0, !.updated_at = 0]
                            = [invoices[x] EXCEPT !.total_amount = 0, !.updated_at = 0]
                      /\ invoices'[x].updated_at # invoices[x].updated_at =>
                            invoices'[x].total_amount # invoices[x].total_amount ]_vars

\* C25 witness: an item operation has changed the total of its invoice while
\* another invoice is stored.
C25_Witness ==
    \E r \in Requests :
        /\ ItemOpCompleted(r)
        /\ local[r].invoice_id \in DOMAIN invoices
        /\ local[r].invoice_id \in DOMAIN before[r].invoices
        /\ invoices[local[r].invoice_id].total_amount
              # before[r].invoices[local[r].invoice_id].total_amount
        /\ \E i \in DOMAIN invoices : i # local[r].invoice_id

\* The ids on the pages, first page first.
RECURSIVE Concat(_)
Concat(seqs) == IF seqs = << >> THEN << >> ELSE Head(seqs) \o Concat(Tail(seqs))

\* The client of request r has fetched every page of its listing and the one
\* after the last.
Listed(r) == Done(r) /\ call[r].op = "get_all"

\* C26: for a listing of N matching records fetched page by page with
\* limit >= 1, the reported pages is the least number of pages of that size
\* that hold N records (0 for N = 0); every page holds at most limit records
\* and is the slice (page-1)*limit .. page*limit-1 of the ordered result; the
\* page after the last is empty; and the pages 1..pages together hold every
\* matching record exactly once.
C26_PaginationCoversOnce ==
    \A r \in Requests :
        Listed(r) =>
            LET c == call[r]
                n == Len(c.rows)
                pages == response[r].pages
                fetched == response[r].fetched
                all == Concat(SubSeq(fetched, 1, pages))
            IN /\ pages * c.limit >= n
               /\ pages > 0 => (pages - 1) * c.limit < n
               /\ n = 0 => pages = 0
               /\ \A p \in 1..Len(fetched) : Len(fetched[p]) <= c.limit
               /\ \A p \in 1..Len(fetched) :
                     \E o \in OrderedResults(c.service, c.rows) :
                         fetched[p] = PageOf(o, p, c.limit)
               /\ fetched[pages + 1] = << >>
               /\ Len(all) = n
               /\ \A id \in 1..n : \E k \in 1..Len(all) : all[k] = id

\* C27: whatever invoices are stored, get_stats reports paid + unpaid = total
\* and paid_amount + unpaid_amount = total_amount, where total is the number
\* of invoices and total_amount the sum of their totals; with no invoice
\* stored the three amounts are 0.
C27_StatsPartition ==
    \A r \in Requests :
        (Done(r) /\ call[r].op = "get_stats") =>
            LET st == response[r]
                rows == call[r].rows
            IN /\ st.total = Len(rows)
               /\ st.paid + st.unpaid = st.total
               /\ st.total_amount = SumSeq([i \in 1..Len(rows) |-> rows[i].total_amount])
               /\ st.paid_amount + st.unpaid_amount = st.total_amount
               /\ rows = << >> =>
                    (st.total_amount = 0 /\ st.paid_amount = 0 /\ st.unpaid_amount = 0)

\* C27 witness: statistics over a paid and an unpaid invoice, both with a
\* non-zero total.
C27_Witness ==
    \E r \in Requests :
        /\ Done(r) /\ call[r].op = "get_stats"
        /\ response[r].paid >= 1 /\ response[r].unpaid >= 1
        /\ response[r].paid_amount > 0 /\ response[r].unpaid_amount > 0

\* The record a delete call addresses.
Target(c) ==
    CASE c.op \in {"provedor_delete", "liquidacion_delete"} -> c.id
      [] c.op = "invoice_delete" -> c.invoice_id
      [] c.op = "item_delete" -> c.item_id

DeleteOps == {"provedor_delete", "liquidacion_delete", "invoice_delete", "item_delete"}

\* Request r starts the delete that request q has just completed
\* successfully, on the same record.
RepeatsDelete(r, q) ==
    /\ r # q
    /\ pc[q] = "done" /\ result[q] = "ok" /\ call[q].op \in DeleteOps
    /\ pc[r] = "idle" /\ pc'[r] # "idle"
    /\ call'[r].op = call[q].op
    /\ Target(call'[r]) = Target(call[q])

\* C28: a delete repeated on a record of provedores or liquidaciones finds
\* the record, answers as the first did unless the database fails, and leaves
\* every table as it was, the status still 0; a delete repeated on an invoice
\* or an item returns False at once and leaves every table as it was.
C28_RepeatedDelete ==
    [][ \A r, q \in Requests :
          RepeatsDelete(r, q) =>
              /\ pc'[r] = "done"
              /\ <<invoices', items', provedores', liquidaciones'>>
                    = <<invoices, items, provedores, liquidaciones>>
              /\ call[q].op = "provedor_delete" =>
                    /\ result'[r] \in {"ok", "error"}
                    /\ provedores'[call[q].id].provedor_estado = 0
              /\ call[q].op = "liquidacion_delete" =>
                    /\ result'[r] \in {"ok", "error"}
                    /\ liquidaciones'[call[q].id].estado = 0
              /\ call[q].op \in {"invoice_delete", "item_delete"} =>
                    result'[r] = "absent" ]_vars

\* C28 witness: two requests have deleted the same provedor, both answered
\* True.
C28_Witness ==
    \E r, q \in Requests :
        /\ r # q /\ Done(r) /\ Done(q)
        /\ call[r].op = "provedor_delete" /\ call[q] = call[r]
        /\ result[r] = "ok" /\ result[q] = "ok"

\* C29: lifespan makes at most max_retries = 5 connection attempts, makes none
\* after the first that succeeds, and always reaches the running state, whatever
\* fails on the way.
C29_StartupReachesRunning ==
    /\ [](startup.attempts <= MaxRetries)
    /\ [][startup.connected => startup'.attempts = startup.attempts]_vars
    /\ <>(startup.at = "running")

\* C29: the application runs after five failed attempts and after table
\* initialization, migrations and seeding all failed.
C29_Witness ==
    /\ startup.at = "running"
    /\ startup.attempts = MaxRetries
    /\ ~startup.connected
    /\ \A m \in {"could_not_connect", "init_error", "migration_error", "seeding_error"} :
           \E i \in DOMAIN startup.logged : startup.logged[i] = m

====
